---------------------------- MODULE Spec2Model ----------------------------
(***************************************************************************)
(* Model of the relevance scoring and subsection extraction engine of      *)
(* adobe2/src/relevance_scorer.py (class RelevanceScorer) together with    *)
(* the records it consumes (document_processor.py), the analysis of the    *)
(* persona and job texts (persona_analyzer.py, class PersonaAnalyzer) and  *)
(* the formatting of the results (output_formatter.py, OutputFormatter).   *)
(*                                                                         *)
(* Texts are TLA+ strings handled character by character.  Scores, which   *)
(* the program holds as floats in [0,1], are held in thousandths (Scale);  *)
(* a quotient or square root is rounded down to the thousandth.  The       *)
(* relevance score, a weighted sum with weights in hundredths, is held in  *)
(* units of 1/(100*Scale).                                                 *)
(***************************************************************************)
EXTENDS Integers, Sequences, FiniteSets, TLC

(***************************************************************************)
(* Python string primitives                                                *)
(***************************************************************************)

\* s[i] as a one-character string (1-based)
Ch(s, i) == SubSeq(s, i, i)

\* str.isspace() for the characters of the modelled texts
IsSpace(c) == c \in {" ", "\n", "\t"}

UpperChars == <<"A","B","C","D","E","F","G","H","I","J","K","L","M",
                "N","O","P","Q","R","S","T","U","V","W","X","Y","Z">>
LowerChars == <<"a","b","c","d","e","f","g","h","i","j","k","l","m",
                "n","o","p","q","r","s","t","u","v","w","x","y","z">>

LowerChar(c) ==
    IF \E k \in 1..26 : UpperChars[k] = c
    THEN LowerChars[CHOOSE k \in 1..26 : UpperChars[k] = c]
    ELSE c

\* str.lower()
RECURSIVE Lower(_)
Lower(s) ==
    IF Len(s) = 0 THEN s
    ELSE IF Len(s) = 1 THEN LowerChar(s)
    ELSE LET h == Len(s) \div 2
         IN  Lower(SubSeq(s, 1, h)) \o Lower(SubSeq(s, h + 1, Len(s)))

\* k in s  (substring test)
Contains(s, k) ==
    \/ Len(k) = 0
    \/ \E i \in 1..(Len(s) - Len(k) + 1) : SubSeq(s, i, i + Len(k) - 1) = k

\* str.strip()
Strip(s) ==
    IF \A i \in 1..Len(s) : IsSpace(Ch(s, i)) THEN ""
    ELSE SubSeq(s,
                CHOOSE i \in 1..Len(s) :
                    ~IsSpace(Ch(s, i)) /\ \A j \in 1..(i - 1) : IsSpace(Ch(s, j)),
                CHOOSE i \in 1..Len(s) :
                    ~IsSpace(Ch(s, i)) /\ \A j \in (i + 1)..Len(s) : IsSpace(Ch(s, j)))

DigitChars == {"0","1","2","3","4","5","6","7","8","9"}

\* the character classes a text is cut by: "space" is \s, "word" is the
\* complement of \w, "sentence" is [.!?]
IsSeparator(cls, c) ==
    CASE cls = "space" -> IsSpace(c)
      [] cls = "word" -> ~(\/ \E k \in 1..26 : LowerChars[k] = c \/ UpperChars[k] = c
                           \/ c \in DigitChars
                           \/ c = "_")
      [] cls = "sentence" -> c \in {".", "!", "?"}

\* the pieces of s between runs of separators of class cls, in order,
\* without the empty pieces; s is cut at the separator nearest after (else
\* before) its middle and each half is cut in turn
RECURSIVE Pieces(_, _)
Pieces(s, cls) ==
    LET n == Len(s)
        mid == (n + 1) \div 2
        Sep(i) == IsSeparator(cls, Ch(s, i))
    IN  IF n = 0 THEN <<>>
        ELSE IF \E i \in mid..n : Sep(i)
        THEN LET m == CHOOSE i \in mid..n :
                        Sep(i) /\ \A j \in mid..(i - 1) : ~Sep(j)
             IN  Pieces(SubSeq(s, 1, m - 1), cls) \o Pieces(SubSeq(s, m + 1, n), cls)
        ELSE IF \E i \in 1..(mid - 1) : Sep(i)
        THEN LET m == CHOOSE i \in 1..(mid - 1) :
                        Sep(i) /\ \A j \in (i + 1)..(mid - 1) : ~Sep(j)
             IN  Pieces(SubSeq(s, 1, m - 1), cls) \o <<SubSeq(s, m + 1, n)>>
        ELSE <<s>>

\* str.split(): the whitespace-separated words
Split(s) == Pieces(s, "space")

\* len(s.split()), computed without building the words
WordCount(s) ==
    Cardinality({i \in 1..Len(s) :
                   ~IsSpace(Ch(s, i)) /\ (i = 1 \/ IsSpace(Ch(s, i - 1)))})

\* n copies of s
RECURSIVE Rep(_, _)
Rep(s, n) ==
    IF n = 0 THEN ""
    ELSE LET h == Rep(s, n \div 2)
         IN  IF n % 2 = 0 THEN h \o h ELSE h \o h \o s

Min(a, b) == IF a <= b THEN a ELSE b
Max(a, b) == IF a >= b THEN a ELSE b

\* f itself, held as the table of its values (a list, a mapping) so that it
\* is computed once
List(f) == IF DOMAIN f = {} THEN <<>> ELSE f \o <<>>
Map(f) == f @@ <<>>

\* sum of f[x] over the finite set S
RECURSIVE SumOver(_, _)
SumOver(S, f) ==
    IF S = {} THEN 0
    ELSE LET x == CHOOSE y \in S : TRUE
         IN  f[x] + SumOver(S \ {x}, f)

\* floor(sqrt(x)) by bisection on lo..hi
RECURSIVE SqrtIn(_, _, _)
SqrtIn(x, lo, hi) ==
    IF lo >= hi THEN lo
    ELSE LET mid == (lo + hi + 1) \div 2
         IN  IF mid * mid <= x THEN SqrtIn(x, mid, hi)
             ELSE SqrtIn(x, lo, mid - 1)

Isqrt(x) == SqrtIn(x, 0, 46340)

\* floor(10^(2*d) * num / den) for 0 <= num < den, by long division, two
\* decimal digits a step
RECURSIVE Digits(_, _, _)
Digits(num, den, d) ==
    IF d = 0 THEN 0
    ELSE LET q == (num * 100) \div den
             r == (num * 100) % den
         IN  q * (10 * 10) ^ (d - 1) + Digits(r, den, d - 1)

\* the score unit: thousandths
Scale == 10 * 100


(***************************************************************************)
(* Records of document_processor.py and persona_analyzer.py                *)
(***************************************************************************)

\* Optional[str]: None is <<>>, a value v is <<v>>
NoneStr == <<>>
Some(v) == <<v>>

DocumentSection(title, content, page_number, section_number) ==
    [title |-> title, content |-> content, page_number |-> page_number,
     section_number |-> section_number]

ProcessedDocument(filename, sections) ==
    [filename |-> filename, sections |-> sections]

PersonaProfile(role, expertise_domains, focus_areas, skill_level, keywords) ==
    [role |-> role, expertise_domains |-> expertise_domains,
     focus_areas |-> focus_areas, skill_level |-> skill_level,
     keywords |-> keywords]

JobRequirements(primary_goal, information_needs, deliverable_type, priority_keywords, success_criteria) ==
    [primary_goal |-> primary_goal, information_needs |-> information_needs,
     deliverable_type |-> deliverable_type,
     priority_keywords |-> priority_keywords,
     success_criteria |-> success_criteria]

\* the success criteria of a job whose text names none
DefaultCriteria ==
    <<"Relevant content extraction", "Clear organization", "Actionable insights">>

ScoredSection(document, section, relevance_score, persona_alignment, job_alignment, importance_rank) ==
    [document |-> document, section |-> section,
     relevance_score |-> relevance_score,
     persona_alignment |-> persona_alignment,
     job_alignment |-> job_alignment, importance_rank |-> importance_rank]

SubSection(document, page_number, refined_text, parent_section, relevance_score) ==
    [document |-> document, page_number |-> page_number,
     refined_text |-> refined_text, parent_section |-> parent_section,
     relevance_score |-> relevance_score]

Range(f) == {f[i] : i \in DOMAIN f}

(***************************************************************************)
(* TfidfVectorizer(max_features=1000, stop_words='english',                *)
(* ngram_range=(1, 2), min_df=1, max_df=0.95) as RelevanceScorer uses it   *)
(***************************************************************************)

MaxFeatures == 1000
MinDf == 1
MaxDfPercent == 95

\* the words of the English stop list that occur in the modelled texts
StopWords ==
    {"the", "and", "of", "on", "in", "for", "to", "is", "are", "with", "we",
     "this", "that", "an", "it", "be", "as", "by", "or", "at", "from",
     "show", "very", "well", "all", "also"}

NotStopWord(t) == t \notin StopWords
AtLeastTwo(t) == Len(t) >= 2

\* the analyzer: lower-case, tokens \b\w\w+\b, stop words removed, then the
\* unigrams followed by the bigrams of adjacent remaining tokens
Tokens(text) ==
    SelectSeq(SelectSeq(Pieces(Lower(text), "word"), AtLeastTwo), NotStopWord)

WithBigrams(toks) ==
    toks \o List([i \in 1..(Len(toks) - 1) |-> toks[i] \o " " \o toks[i + 1]])

TermSeq(text) == WithBigrams(Tokens(text))

CountIn(seq, t) == Cardinality({i \in DOMAIN seq : seq[i] = t})

\* 100 * (ln((1 + n) / (1 + df)) + 1) rounded, for corpora of n <= 8 texts
IdfTable ==
    << <<100>>,
       <<141, 100>>,
       <<169, 129, 100>>,
       <<192, 151, 122, 100>>,
       <<210, 169, 141, 118, 100>>,
       <<225, 185, 156, 134, 115, 100>>,
       <<239, 198, 169, 147, 129, 113, 100>>,
       <<250, 210, 181, 159, 141, 125, 112, 100>> >>

\* a row scaled to unit Euclidean length, in thousandths; a zero row stays zero
Normalize(w) ==
    LET norm2 == SumOver(DOMAIN w, [t \in DOMAIN w |-> w[t] * w[t]])
    IN  Map([t \in DOMAIN w |->
               IF w[t] = 0 THEN 0
               ELSE IF w[t] * w[t] = norm2 THEN Scale
               ELSE Isqrt(Digits(w[t] * w[t], norm2, 3))])

UnfittedVectorizer == [fitted |-> FALSE, vocabulary |-> {}, idf |-> <<>>]

\* the terms of every text, and the terms seen in any of them
TermLists(texts) == List([i \in DOMAIN texts |-> TermSeq(texts[i])])
SeenTerms(docs) == UNION {Range(docs[i]) : i \in DOMAIN docs}

\* in how many texts the term occurs, and how often in all of them
DocFreq(docs, t) == Cardinality({i \in DOMAIN docs : t \in Range(docs[i])})
TermFreq(docs, t) == SumOver(DOMAIN docs, [i \in DOMAIN docs |-> CountIn(docs[i], t)])

\* the terms that max_df and min_df leave
KeptTerms(docs) ==
    {t \in SeenTerms(docs) :
        /\ DocFreq(docs, t) * 100 <= MaxDfPercent * Len(docs)
        /\ DocFreq(docs, t) >= MinDf}

\* max_features: the most frequent of the kept terms
Vocabulary(docs, kept) ==
    IF Cardinality(kept) <= MaxFeatures THEN kept
    ELSE CHOOSE T \in SUBSET kept :
           /\ Cardinality(T) = MaxFeatures
           /\ \A t \in T : \A u \in kept \ T :
                  TermFreq(docs, t) >= TermFreq(docs, u)

\* the fitted vectorizer and the matrix of the texts it was fitted to
Fitted(docs, vocabulary, idf) ==
    [ok |-> TRUE,
     vectorizer |-> [fitted |-> TRUE, vocabulary |-> vocabulary, idf |-> idf],
     matrix |-> List([i \in DOMAIN docs |->
                   Normalize(Map([t \in vocabulary |->
                                     CountIn(docs[i], t) * idf[t]]))])]

FitVocabulary(docs, vocabulary) ==
    IF vocabulary = {}
    THEN [ok |-> FALSE, vectorizer |-> UnfittedVectorizer, matrix |-> <<>>]
    ELSE Fitted(docs, vocabulary,
                Map([t \in vocabulary |-> IdfTable[Len(docs)][DocFreq(docs, t)]]))

\* fit_transform on the term lists; it raises ValueError (ok = FALSE) where
\* the vocabulary is empty, where max_df is below min_df, and where no
\* terms remain after pruning
FitTerms(docs) ==
    IF MaxDfPercent * Len(docs) < MinDf * 100
    THEN [ok |-> FALSE, vectorizer |-> UnfittedVectorizer, matrix |-> <<>>]
    ELSE FitVocabulary(docs, Vocabulary(docs, KeptTerms(docs)))

\* what fit_transform(texts) computes from the texts: the vocabulary, the
\* idf weights and the matrix, or ok = FALSE where it raises
Fit(texts) == FitTerms(TermLists(texts))

\* transform([text]): the row of the text, or ok = FALSE where transform
\* raises NotFittedError
TransformTerms(vec, terms) ==
    IF ~vec.fitted THEN [ok |-> FALSE, row |-> <<>>]
    ELSE [ok |-> TRUE,
          row |-> Normalize(Map([t \in vec.vocabulary |->
                                    CountIn(terms, t) * vec.idf[t]]))]

Transform(vec, text) == TransformTerms(vec, TermSeq(text))

\* cosine_similarity of two unit rows over the same vocabulary, in thousandths
CosineSimilarity(q, d) ==
    SumOver(DOMAIN q, [t \in DOMAIN q |-> q[t] * d[t]]) \div Scale

\* ' '.join(list)
RECURSIVE JoinWith(_, _)
JoinWith(sep, list) ==
    IF Len(list) = 0 THEN ""
    ELSE IF Len(list) = 1 THEN list[1]
    ELSE LET h == Len(list) \div 2
         IN  JoinWith(sep, SubSeq(list, 1, h)) \o sep
               \o JoinWith(sep, SubSeq(list, h + 1, Len(list)))

(***************************************************************************)
(* RelevanceScorer: the component scores of a section                       *)
(***************************************************************************)

\* self.weights, in hundredths
W_keyword_match == 30
W_semantic_similarity == 20
W_structural_importance == 20
W_persona_alignment == 15
W_job_alignment == 15

\* how many times the strings of the set K occur in text, every occurrence
\* of every string counted
MatchesCounted(K, text) ==
    SumOver(K, [k \in K |->
                  Cardinality({i \in 1..(Len(text) - Len(k) + 1) :
                                 SubSeq(text, i, i + Len(k) - 1) = k})])

\* how many of the strings of the set K occur in text
Matches(K, text) == Cardinality({k \in K : Contains(text, k)})

\* any(k in text for k in list)
AnyIn(list, text) == \E i \in DOMAIN list : Contains(text, list[i])

_calculate_keyword_score(section, persona, job) ==
    LET content_lower == Lower(section.content)
        title_lower == Lower(section.title)
        all_keywords == persona.keywords \cup job.priority_keywords
        content_matches == Matches(all_keywords, content_lower)
        title_matches == Matches(all_keywords, title_lower)
        total_matches == content_matches + (title_matches * 2)
        content_words == WordCount(content_lower)
        den == content_words * Cardinality(all_keywords)
    IN  IF all_keywords = {} THEN 0
        ELSE IF content_words = 0 THEN 0
        \* min(total / sqrt(words) / sqrt(|K|), 1.0)
        ELSE IF total_matches * total_matches >= den THEN Scale
        ELSE Isqrt(Digits(total_matches * total_matches, den, 3))

\* persona.role focus_areas job.primary_goal information_needs, as the
\* f-string joins them
QueryText(persona, job) ==
    persona.role \o " " \o JoinWith(" ", persona.focus_areas) \o " "
      \o job.primary_goal \o " " \o JoinWith(" ", job.information_needs)

high_value_terms ==
    <<"abstract", "introduction", "conclusion", "summary", "results",
      "methodology", "methods", "discussion", "findings", "analysis">>

\* float(text) for an optionally signed run of digits with optional blanks
\* around it; ok = FALSE is ValueError.  The other forms float() accepts
\* (exponent, inf, nan, underscores) do not occur in the modelled inputs.
ParseFloat(text) ==
    LET t == Strip(text)
        signed == Len(t) > 0 /\ Ch(t, 1) \in {"+", "-"}
        body == IF signed THEN SubSeq(t, 2, Len(t)) ELSE t
        DigitVal(c) == CHOOSE d \in 0..9 :
                         <<"0","1","2","3","4","5","6","7","8","9">>[d + 1] = c
        mag == SumOver(1..Len(body),
                       [i \in 1..Len(body) |->
                           DigitVal(Ch(body, i)) * 10 ^ (Len(body) - i)])
    IN  IF Len(body) = 0 \/ \E i \in 1..Len(body) : Ch(body, i) \notin DigitChars
        THEN [ok |-> FALSE, value |-> 0]
        ELSE [ok |-> TRUE,
              value |-> IF signed /\ Ch(t, 1) = "-" THEN 0 - mag ELSE mag]

\* text.split('.')[0]
BeforeFirstDot(text) ==
    IF \E i \in 1..Len(text) : Ch(text, i) = "."
    THEN SubSeq(text, 1,
                (CHOOSE i \in 1..Len(text) :
                    Ch(text, i) = "." /\ \A j \in 1..(i - 1) : Ch(text, j) # ".") - 1)
    ELSE text

\* _calculate_structural_score with the loop over high_value_terms running
\* on after a hit: 0.3 for every term the title contains
StructuralScoreNoBreak(section) ==
    LET title_lower == Lower(section.title)
        title_part ==
            300 * Cardinality({k \in DOMAIN high_value_terms :
                                  Contains(title_lower, high_value_terms[k])})
        first_num == ParseFloat(BeforeFirstDot(section.section_number[1]))
        number_part ==
            IF section.section_number # NoneStr /\ section.section_number[1] # ""
            THEN IF first_num.ok /\ first_num.value <= 3 THEN 200 ELSE 0
            ELSE 0
        content_length == WordCount(section.content)
        length_part == IF 50 <= content_length /\ content_length <= 500 THEN 200
                       ELSE IF content_length > 500 THEN 100
                       ELSE 0
        page_part == IF section.page_number <= 3 THEN 100 ELSE 0
    IN  Min(title_part + number_part + length_part + page_part, Scale)

_calculate_structural_score(section) ==
    LET title_lower == Lower(section.title)
        \* the loop over high_value_terms breaks at the first hit
        title_part == IF AnyIn(high_value_terms, title_lower) THEN 300 ELSE 0
        first_num == ParseFloat(BeforeFirstDot(section.section_number[1]))
        number_part ==
            IF section.section_number # NoneStr /\ section.section_number[1] # ""
            THEN IF first_num.ok /\ first_num.value <= 3 THEN 200 ELSE 0
            ELSE 0
        content_length == WordCount(section.content)
        length_part == IF 50 <= content_length /\ content_length <= 500 THEN 200
                       ELSE IF content_length > 500 THEN 100
                       ELSE 0
        page_part == IF section.page_number <= 3 THEN 100 ELSE 0
    IN  Min(title_part + number_part + length_part + page_part, Scale)

_get_domain_keywords(domain) ==
    CASE domain = "computer_science" ->
            <<"algorithm", "programming", "software", "computing", "data",
              "neural", "machine">>
      [] domain = "biology" ->
            <<"gene", "protein", "cell", "organism", "molecular", "genetic">>
      [] domain = "chemistry" ->
            <<"reaction", "compound", "molecule", "synthesis", "organic",
              "kinetics">>
      [] domain = "finance" ->
            <<"revenue", "profit", "investment", "market", "financial">>
      [] domain = "medicine" ->
            <<"patient", "treatment", "clinical", "therapeutic", "medical">>
      [] domain = "research" ->
            <<"study", "analysis", "methodology", "experiment", "literature">>
      [] domain = "education" ->
            <<"learning", "curriculum", "academic", "study">>
      [] domain = "business" ->
            <<"strategy", "management", "operations", "marketing">>
      [] OTHER -> <<>>

_calculate_persona_alignment(section, persona) ==
    LET content_lower == Lower(section.content)
        title_lower == Lower(section.title)
        InEither(word) == Contains(content_lower, word) \/ Contains(title_lower, word)
        domains == {i \in DOMAIN persona.expertise_domains :
                      LET domain_keywords ==
                              _get_domain_keywords(persona.expertise_domains[i])
                      IN  \E k \in DOMAIN domain_keywords :
                              InEither(domain_keywords[k])}
        focus == {i \in DOMAIN persona.focus_areas :
                    LET focus_words == Split(Lower(persona.focus_areas[i]))
                    IN  \E k \in DOMAIN focus_words : InEither(focus_words[k])}
        technical_terms == <<"methodology", "analysis", "framework", "model",
                             "algorithm">>
        intro_terms == <<"introduction", "overview", "basic", "fundamental",
                         "concept">>
        level_part ==
            IF persona.skill_level = "expert"
            THEN IF AnyIn(technical_terms, content_lower) THEN 100 ELSE 0
            ELSE IF persona.skill_level = "beginner"
            THEN IF AnyIn(intro_terms, content_lower) THEN 100 ELSE 0
            ELSE 0
    IN  Min(300 * Cardinality(domains) + 200 * Cardinality(focus) + level_part,
            Scale)

deliverable_keywords(deliverable_type) ==
    CASE deliverable_type = "analysis" ->
            <<"analysis", "analyze", "examination", "evaluation">>
      [] deliverable_type = "synthesis" ->
            <<"summary", "overview", "compilation", "integration">>
      [] deliverable_type = "review" ->
            <<"review", "survey", "literature", "comprehensive">>
      [] deliverable_type = "preparation" ->
            <<"methodology", "approach", "framework", "procedure">>
      [] deliverable_type = "identification" ->
            <<"key", "important", "significant", "main">>
      [] deliverable_type = "learning" ->
            <<"concept", "principle", "fundamental", "theory">>
      [] OTHER -> <<>>

\* _calculate_job_alignment returning score in place of min(score, 1.0)
JobAlignmentUnclamped(section, job) ==
    LET content_lower == Lower(section.content)
        title_lower == Lower(section.title)
        InEither(word) == Contains(content_lower, word) \/ Contains(title_lower, word)
        goal_words == Split(Lower(job.primary_goal))
        goal_part == IF \E k \in DOMAIN goal_words : InEither(goal_words[k])
                     THEN 400 ELSE 0
        needs == {i \in DOMAIN job.information_needs :
                    LET need_words == Split(Lower(job.information_needs[i]))
                    IN  \E k \in DOMAIN need_words : InEither(need_words[k])}
        type_part == IF AnyIn(deliverable_keywords(job.deliverable_type),
                              content_lower)
                     THEN 200 ELSE 0
    IN  goal_part + 200 * Cardinality(needs) + type_part

\* _calculate_job_alignment looking for the keywords of the deliverable type
\* in the title as well
JobAlignmentTypeInTitle(section, job) ==
    LET content_lower == Lower(section.content)
        title_lower == Lower(section.title)
        InEither(word) == Contains(content_lower, word) \/ Contains(title_lower, word)
        goal_words == Split(Lower(job.primary_goal))
        goal_part == IF \E k \in DOMAIN goal_words : InEither(goal_words[k])
                     THEN 400 ELSE 0
        needs == {i \in DOMAIN job.information_needs :
                    LET need_words == Split(Lower(job.information_needs[i]))
                    IN  \E k \in DOMAIN need_words : InEither(need_words[k])}
        type_part == IF \/ AnyIn(deliverable_keywords(job.deliverable_type),
                                 content_lower)
                        \/ AnyIn(deliverable_keywords(job.deliverable_type),
                                 title_lower)
                     THEN 200 ELSE 0
    IN  Min(goal_part + 200 * Cardinality(needs) + type_part, Scale)

_calculate_job_alignment(section, job) ==
    LET content_lower == Lower(section.content)
        title_lower == Lower(section.title)
        InEither(word) == Contains(content_lower, word) \/ Contains(title_lower, word)
        goal_words == Split(Lower(job.primary_goal))
        goal_matches == Cardinality({k \in DOMAIN goal_words : InEither(goal_words[k])})
        goal_part == IF goal_matches > 0 THEN 400 ELSE 0
        needs == {i \in DOMAIN job.information_needs :
                    LET need_words == Split(Lower(job.information_needs[i]))
                    IN  \E k \in DOMAIN need_words : InEither(need_words[k])}
        type_part == IF AnyIn(deliverable_keywords(job.deliverable_type),
                              content_lower)
                     THEN 200 ELSE 0
    IN  Min(goal_part + 200 * Cardinality(needs) + type_part, Scale)

(***************************************************************************)
(* RelevanceScorer: sentences of a section                                  *)
(***************************************************************************)

\* positions 1..n of a list of scores in the order a stable sort by
\* descending score leaves them (list.sort(key=..., reverse=True))
\* SortOrder as an ascending sort that is then reversed leaves the list:
\* descending, equal scores in reverse of their original order
SortOrderReversed(scores) ==
    LET n == Len(scores)
        Pos(i) == Cardinality({j \in 1..n : scores[j] > scores[i]})
                  + Cardinality({j \in (i + 1)..n : scores[j] = scores[i]}) + 1
    IN  List([k \in 1..n |-> CHOOSE i \in 1..n : Pos(i) = k])

SortOrder(scores) ==
    LET n == Len(scores)
        Pos(i) == Cardinality({j \in 1..n : scores[j] > scores[i]})
                  + Cardinality({j \in 1..(i - 1) : scores[j] = scores[i]}) + 1
    IN  List([k \in 1..n |-> CHOOSE i \in 1..n : Pos(i) = k])

\* the relevance_score of every record of a list
RelevanceScores(records) ==
    List([i \in DOMAIN records |-> records[i].relevance_score])

\* the list in the order the positions give
Permute(list, order) == List([k \in DOMAIN order |-> list[order[k]]])

\* list[:n] for n >= 0
Take(list, n) == SubSeq(list, 1, Min(n, Len(list)))

LongEnough(s) == Len(s) > 20

\* re.split(r'[.!?]+', content), stripped, the pieces of more than 20
\* characters kept
\* s.strip() for every s of the list
StripAll(parts) == List([i \in DOMAIN parts |-> Strip(parts[i])])

\* Sentences with the length test on the fragment before it is stripped
SentencesUntrimmedTest(content) ==
    StripAll(SelectSeq(Pieces(content, "sentence"), LongEnough))

Sentences(content) ==
    SelectSeq(StripAll(Pieces(content, "sentence")), LongEnough)

sentence_keyword_score(sentence, persona, job) ==
    LET all_keywords == persona.keywords \cup job.priority_keywords
        keyword_matches == Matches(all_keywords, Lower(sentence))
        words == WordCount(sentence)
    IN  \* min(keyword_matches / words * 2, 1.0)
        IF keyword_matches * 2 >= words THEN Scale
        ELSE (keyword_matches * 2 * Scale) \div words

\* sentence_length_score without the floor max(0.1, ...)
SentenceLengthUnfloored(sentence) ==
    LET length == WordCount(sentence)
    IN  IF 5 <= length /\ length <= 30 THEN Scale
        ELSE IF length < 5 THEN 500
        ELSE Scale - (length - 30) * 20

sentence_length_score(sentence) ==
    LET length == WordCount(sentence)
    IN  IF 5 <= length /\ length <= 30 THEN Scale
        ELSE IF length < 5 THEN 500
        ELSE Max(100, Scale - (length - 30) * 20)

quality_indicators ==
    <<"result", "finding", "conclusion", "analysis", "method", "approach">>

sentence_quality_score(sentence) ==
    IF AnyIn(quality_indicators, Lower(sentence)) THEN 300 ELSE 0

\* the division by len(sentence.split()) raises ZeroDivisionError
ScoreSentenceRaises(sentence) == WordCount(sentence) = 0

\* in units of 1/(10*Scale)
_score_sentence(sentence, persona, job) ==
    sentence_keyword_score(sentence, persona, job) * 6
      + sentence_length_score(sentence) * 2
      + sentence_quality_score(sentence) * 2

\* re.sub(r'\s+', ' ', text).strip()
CollapseSpaces(text) == JoinWith(" ", Pieces(text, "space"))

\* _refine_sentence_with_context leaving the target sentence out of the
\* context it joins
ContextWithoutTarget(target_sentence, all_sentences) ==
    LET Hit(i) == Contains(all_sentences[i], Strip(target_sentence))
        n == Len(all_sentences)
    IN  IF ~\E i \in 1..n : Hit(i) THEN target_sentence
        ELSE LET target_index == CHOOSE i \in 1..n :
                                    Hit(i) /\ \A j \in 1..(i - 1) : ~Hit(j)
                 before == IF target_index > 1
                           THEN <<all_sentences[target_index - 1]>> ELSE <<>>
                 after == IF target_index < n
                          THEN <<all_sentences[target_index + 1]>> ELSE <<>>
             IN  CollapseSpaces(JoinWith(". ", before \o after))

_refine_sentence_with_context(target_sentence, all_sentences) ==
    LET Hit(i) == Contains(all_sentences[i], Strip(target_sentence))
        n == Len(all_sentences)
    IN  IF ~\E i \in 1..n : Hit(i) THEN target_sentence
        ELSE LET target_index == CHOOSE i \in 1..n :
                                    Hit(i) /\ \A j \in 1..(i - 1) : ~Hit(j)
                 before == IF target_index > 1
                           THEN <<all_sentences[target_index - 1]>> ELSE <<>>
                 after == IF target_index < n
                          THEN <<all_sentences[target_index + 1]>> ELSE <<>>
             IN  CollapseSpaces(
                     JoinWith(". ", before \o <<target_sentence>> \o after))

\* the score of every retained sentence
SentenceScores(sentences, persona, job) ==
    List([i \in DOMAIN sentences |-> _score_sentence(sentences[i], persona, job)])

\* CreateSubSections keeping on every SubSection a link to the Section it
\* was taken from
CreateSubSectionsLinked(scored_section, sentences, scores, top_sentences) ==
    List([k \in DOMAIN top_sentences |->
            SubSection(scored_section.document,
                       scored_section.section.page_number,
                       _refine_sentence_with_context(
                           sentences[top_sentences[k]], sentences),
                       scored_section.section.title,
                       scores[top_sentences[k]])
              @@ [section |-> scored_section.section]])

\* a SubSection for each of the top sentences, best first
CreateSubSections(scored_section, sentences, scores, top_sentences) ==
    List([k \in DOMAIN top_sentences |->
            SubSection(scored_section.document,
                       scored_section.section.page_number,
                       _refine_sentence_with_context(
                           sentences[top_sentences[k]], sentences),
                       scored_section.section.title,
                       scores[top_sentences[k]])])

\* sentence_scores.sort(...)[:max_subsections] and the SubSections made of it
TopSubSections(scored_section, sentences, scores, max_subsections) ==
    CreateSubSections(scored_section, sentences, scores,
                      Take(SortOrder(scores), max_subsections))

SentenceSubSections(scored_section, sentences, persona, job, max_subsections) ==
    TopSubSections(scored_section, sentences,
                   SentenceScores(sentences, persona, job), max_subsections)

\* the SubSections of one scored section
_extract_section_subsections(scored_section, persona, job, max_subsections) ==
    SentenceSubSections(scored_section,
                        Sentences(scored_section.section.content),
                        persona, job, max_subsections)

\* whether the call raises: a retained sentence has no word
AnyRaises(sentences) ==
    \E k \in DOMAIN sentences : ScoreSentenceRaises(sentences[k])

ExtractRaises(scored_section) ==
    AnyRaises(Sentences(scored_section.section.content))

\* the concatenation of a list of lists
RECURSIVE Concat(_)
Concat(lists) ==
    IF Len(lists) = 0 THEN <<>> ELSE Head(lists) \o Concat(Tail(lists))

(***************************************************************************)
(* Regular expressions as persona_analyzer.py uses them (re.search,        *)
(* re.match, re.findall): a pattern is a tree, and matching is the         *)
(* backtracking search of the re module, which tries the alternatives of   *)
(* a pattern in a fixed order (a repetition takes as much as it can first) *)
(***************************************************************************)

UpperSet == {UpperChars[k] : k \in 1..26}
LowerSet == {LowerChars[k] : k \in 1..26}
Letters == UpperSet \cup LowerSet
SpaceSet == {" ", "\n", "\t"}

\* the two cases of a character
BothCases(c) ==
    IF c \in Letters
    THEN {UpperChars[k] : k \in {n \in 1..26 : c \in {UpperChars[n], LowerChars[n]}}}
         \cup {LowerChars[k] : k \in {n \in 1..26 : c \in {UpperChars[n], LowerChars[n]}}}
    ELSE {c}

\* pattern trees: [...], [^...], concatenation, |, *, +, ?
OneOf(cs) == [op |-> "chars", chars |-> cs]
NoneOf(cs) == [op |-> "not", chars |-> cs]
Cat(parts) == [op |-> "cat", parts |-> parts]
Alt(parts) == [op |-> "alt", parts |-> parts]
Star(r) == [op |-> "star", of |-> r]
Plus(r) == Cat(<<r, Star(r)>>)
Opt(r) == Alt(<<r, Cat(<<>>)>>)

\* a literal text; under re.IGNORECASE (ic) each letter stands for both cases
Lit(s, ic) ==
    Cat(List([i \in 1..Len(s) |-> OneOf(IF ic THEN BothCases(Ch(s, i)) ELSE {Ch(s, i)})]))

\* the positions after the matches of pattern r that start at position i of
\* s, in the order in which the matcher tries them
RECURSIVE MatchEnds(_, _, _)
RECURSIVE CatEnds(_, _, _, _)
RECURSIVE CatOver(_, _, _, _, _)
RECURSIVE AltEnds(_, _, _, _)
RECURSIVE StarEnds(_, _, _)
RECURSIVE StarOver(_, _, _, _, _)

CatEnds(parts, k, s, i) ==
    IF k > Len(parts) THEN <<i>>
    ELSE CatOver(parts, k, s, MatchEnds(parts[k], s, i), 1)

CatOver(parts, k, s, ends, n) ==
    IF n > Len(ends) THEN <<>>
    ELSE CatEnds(parts, k + 1, s, ends[n]) \o CatOver(parts, k, s, ends, n + 1)

AltEnds(parts, k, s, i) ==
    IF k > Len(parts) THEN <<>>
    ELSE MatchEnds(parts[k], s, i) \o AltEnds(parts, k + 1, s, i)

StarEnds(r, s, i) == StarOver(r, s, i, MatchEnds(r, s, i), 1) \o <<i>>

StarOver(r, s, i, ends, n) ==
    IF n > Len(ends) THEN <<>>
    ELSE (IF ends[n] > i THEN StarEnds(r, s, ends[n]) ELSE <<>>)
         \o StarOver(r, s, i, ends, n + 1)

MatchEnds(r, s, i) ==
    CASE r.op = "chars" ->
             IF i <= Len(s) /\ Ch(s, i) \in r.chars THEN <<i + 1>> ELSE <<>>
      [] r.op = "not" ->
             IF i <= Len(s) /\ Ch(s, i) \notin r.chars THEN <<i + 1>> ELSE <<>>
      [] r.op = "cat" -> CatEnds(r.parts, 1, s, i)
      [] r.op = "alt" -> AltEnds(r.parts, 1, s, i)
      [] r.op = "star" -> StarEnds(r.of, s, i)
      [] r.op = "end" -> IF i = Len(s) + 1 THEN <<i>> ELSE <<>>

\* a pattern with one group of interest is held as <<before, group, after>>.
\* MatchAt is the match the matcher finds at position i: <<i, a, b, c>>
\* where the group is s[a..b-1] and the match s[i..c-1]; <<>> if none
RECURSIVE GroupOver(_, _, _, _, _, _)
GroupOver(pat, s, i, a, ends, n) ==
    IF n > Len(ends) THEN <<>>
    ELSE IF MatchEnds(pat[3], s, ends[n]) # <<>>
    THEN <<i, a, ends[n], MatchEnds(pat[3], s, ends[n])[1]>>
    ELSE GroupOver(pat, s, i, a, ends, n + 1)

RECURSIVE BeforeOver(_, _, _, _, _)
BeforeOver(pat, s, i, ends, n) ==
    IF n > Len(ends) THEN <<>>
    ELSE IF GroupOver(pat, s, i, ends[n], MatchEnds(pat[2], s, ends[n]), 1) # <<>>
    THEN GroupOver(pat, s, i, ends[n], MatchEnds(pat[2], s, ends[n]), 1)
    ELSE BeforeOver(pat, s, i, ends, n + 1)

MatchAt(pat, s, i) == BeforeOver(pat, s, i, MatchEnds(pat[1], s, i), 1)

\* re.search from position i on: the match at the first position that has one
RECURSIVE Search(_, _, _)
Search(pat, s, i) ==
    IF i > Len(s) + 1 THEN <<>>
    ELSE IF MatchAt(pat, s, i) # <<>> THEN MatchAt(pat, s, i)
    ELSE Search(pat, s, i + 1)

\* the group of a match
GroupOf(s, m) == SubSeq(s, m[2], m[3] - 1)
\* the whole text of a match
TextOf(s, m) == SubSeq(s, m[1], m[4] - 1)

\* re.findall for a pattern with one group: the group of each match, the
\* search resuming where the last match ended
RECURSIVE FindAllFrom(_, _, _)
FoundAnd(pat, s, m) ==
    IF m = <<>> THEN <<>>
    ELSE <<GroupOf(s, m)>> \o FindAllFrom(pat, s, IF m[4] > m[1] THEN m[4] ELSE m[1] + 1)
FindAllFrom(pat, s, i) == FoundAnd(pat, s, Search(pat, s, i))
FindAll(pat, s) == FindAllFrom(pat, s, 1)

(***************************************************************************)
(* PersonaAnalyzer                                                          *)
(***************************************************************************)

\* self.domain_keywords, in the order of the dict
domain_names ==
    <<"computer_science", "biology", "chemistry", "finance", "medicine",
      "research", "education", "business">>

domain_keywords(domain) ==
    CASE domain = "computer_science" ->
            <<"algorithm", "programming", "software", "computing",
              "data structure", "AI", "ML", "neural network">>
      [] domain = "biology" ->
            <<"gene", "protein", "cell", "organism", "evolution", "molecular",
              "biochemistry", "genetics">>
      [] domain = "chemistry" ->
            <<"reaction", "compound", "molecule", "synthesis", "organic",
              "inorganic", "kinetics", "thermodynamics">>
      [] domain = "finance" ->
            <<"revenue", "profit", "investment", "market", "financial",
              "economics", "trading", "portfolio">>
      [] domain = "medicine" ->
            <<"patient", "treatment", "diagnosis", "clinical", "therapeutic",
              "medical", "healthcare", "disease">>
      [] domain = "research" ->
            <<"study", "analysis", "methodology", "experiment", "hypothesis",
              "literature", "peer review", "publication">>
      [] domain = "education" ->
            <<"student", "learning", "curriculum", "teaching", "academic",
              "exam", "course", "study">>
      [] domain = "business" ->
            <<"strategy", "management", "operations", "marketing", "sales",
              "customer", "competitive", "market">>
      [] OTHER -> <<>>

\* self.skill_indicators, in the order of the dict
skill_levels == <<"beginner", "intermediate", "advanced", "expert">>

skill_indicators(level) ==
    CASE level = "beginner" ->
            <<"student", "undergraduate", "learner", "new", "entry-level">>
      [] level = "intermediate" -> <<"graduate", "analyst", "associate", "junior">>
      [] level = "advanced" -> <<"senior", "manager", "specialist", "experienced">>
      [] level = "expert" ->
            <<"phd", "professor", "director", "principal", "chief", "lead",
              "expert">>

\* self.job_types, in the order of the dict
job_type_names ==
    <<"analysis", "synthesis", "review", "preparation", "identification",
      "learning">>

job_types(job_type) ==
    CASE job_type = "analysis" ->
            <<"analyze", "analysis", "examine", "evaluate", "assess", "compare">>
      [] job_type = "synthesis" ->
            <<"summarize", "compile", "integrate", "combine", "consolidate">>
      [] job_type = "review" ->
            <<"review", "survey", "overview", "comprehensive", "literature">>
      [] job_type = "preparation" ->
            <<"prepare", "create", "develop", "design", "build">>
      [] job_type = "identification" ->
            <<"identify", "find", "locate", "extract", "select">>
      [] job_type = "learning" ->
            <<"learn", "study", "understand", "master", "practice">>

\* any(indicator in text for indicator in indicators)
AnyIndicator(text, indicators) ==
    \E k \in DOMAIN indicators : Contains(text, indicators[k])

\* the first name of names whose list has an indicator in text; default if
\* no list has one
RECURSIVE FirstHit(_, _, _, _, _)
FirstHit(text, names, k, default, skill) ==
    IF k > Len(names) THEN default
    ELSE IF AnyIndicator(text, IF skill THEN skill_indicators(names[k])
                               ELSE job_types(names[k]))
    THEN names[k]
    ELSE FirstHit(text, names, k + 1, default, skill)

\* \s+, [A-Z][a-z]+ and [A-Z][a-z]+(?:\s+[A-Z][a-z]+)*; under re.IGNORECASE
\* (ic) both letter classes hold the letters of either case
Spaces == Plus(OneOf(SpaceSet))
CapWord(ic) ==
    Cat(<<OneOf(IF ic THEN Letters ELSE UpperSet),
          Plus(OneOf(IF ic THEN Letters ELSE LowerSet))>>)
CapWords(ic) == Cat(<<CapWord(ic), Star(Cat(<<Spaces, CapWord(ic)>>))>>)
Nothing == Cat(<<>>)
\* one of the texts of a list
AnyLit(texts, ic) == Alt(List([k \in DOMAIN texts |-> Lit(texts[k], ic)]))

role_patterns ==
    << <<Nothing,
         Cat(<<Opt(Cat(<<Lit("PhD", TRUE), Spaces>>)), CapWords(TRUE), Spaces,
               AnyLit(<<"Researcher", "Student", "Analyst", "Manager",
                        "Director">>, TRUE)>>),
         Nothing>>,
       <<Nothing,
         Cat(<<AnyLit(<<"Undergraduate", "Graduate">>, TRUE), Spaces,
               CapWords(TRUE), Spaces, Lit("Student", TRUE)>>),
         Nothing>>,
       <<Nothing,
         Cat(<<CapWords(TRUE), Spaces,
               AnyLit(<<"Analyst", "Researcher", "Scientist", "Engineer",
                        "Manager">>, TRUE)>>),
         Nothing>> >>

RECURSIVE RoleFrom(_, _)
RoleFrom(description, k) ==
    IF k > Len(role_patterns)
    THEN IF WordCount(description) >= 2
         THEN JoinWith(" ", SubSeq(Split(description), 1, Min(3, WordCount(description))))
         ELSE Strip(description)
    ELSE IF Search(role_patterns[k], description, 1) # <<>>
    THEN Strip(TextOf(description, Search(role_patterns[k], description, 1)))
    ELSE RoleFrom(description, k + 1)

_extract_role(description) == RoleFrom(description, 1)

\* _determine_skill_level testing the levels from 'expert' down
SkillLevelFromExpertDown(description) ==
    FirstHit(Lower(description),
             <<"expert", "advanced", "intermediate", "beginner">>, 1,
             "intermediate", TRUE)

\* _determine_skill_level testing the description as it is written
SkillLevelCaseSensitive(description) ==
    FirstHit(description, skill_levels, 1, "intermediate", TRUE)

_determine_skill_level(description) ==
    FirstHit(Lower(description), skill_levels, 1, "intermediate", TRUE)

domain_patterns ==
    << <<Cat(<<Lit("in", FALSE), Spaces>>), CapWords(FALSE), Nothing>>,
       <<Nothing, CapWords(FALSE),
         Cat(<<Spaces, AnyLit(<<"research", "studies", "field">>, FALSE)>>)>> >>

\* str.replace(' ', '_')
Underscored(s) ==
    IF Len(s) = 0 THEN s
    ELSE JoinWith("", List([i \in 1..Len(s) |-> IF Ch(s, i) = " " THEN "_" ELSE Ch(s, i)]))

\* the elements of _extract_expertise_domains(description); the list it
\* returns, list(set(domains)), holds them in an order the set decides
DomainSet(description) ==
    {domain_names[k] : k \in {n \in DOMAIN domain_names :
        AnyIndicator(Lower(description), domain_keywords(domain_names[n]))}}
    \cup Range(List([k \in DOMAIN FindAll(domain_patterns[1], description) |->
            Underscored(Lower(FindAll(domain_patterns[1], description)[k]))]))
    \cup Range(List([k \in DOMAIN FindAll(domain_patterns[2], description) |->
            Underscored(Lower(FindAll(domain_patterns[2], description)[k]))]))

\* the lists that hold the elements of S once each
Orderings(S) ==
    {f \in [1..Cardinality(S) -> S] : \A x \in S : \E i \in DOMAIN f : f[i] = x}

_extract_expertise_domains(description) == Orderings(DomainSet(description))

Phrase == Plus(NoneOf({",", "."}))

focus_patterns ==
    << <<Cat(<<Lit("focus", TRUE), Opt(AnyLit(<<"ing", "es">>, TRUE)), Spaces,
               Lit("on", TRUE), Spaces>>), Phrase, Nothing>>,
       <<Cat(<<Lit("specializ", TRUE), Opt(AnyLit(<<"ing", "es">>, TRUE)), Spaces,
               Lit("in", TRUE), Spaces>>), Phrase, Nothing>>,
       <<Cat(<<Lit("expert", TRUE), Opt(Lit("ise", TRUE)), Spaces,
               Lit("in", TRUE), Spaces>>), Phrase, Nothing>>,
       <<Cat(<<Lit("working", TRUE), Spaces, AnyLit(<<"on", "with">>, TRUE),
               Spaces>>), Phrase, Nothing>> >>

need_patterns ==
    << <<Cat(<<Lit("focus", TRUE), Opt(AnyLit(<<"ing", "es">>, TRUE)), Spaces,
               Lit("on", TRUE), Spaces>>), Phrase, Nothing>>,
       <<Cat(<<Lit("includ", TRUE), Opt(AnyLit(<<"ing", "es">>, TRUE)), Spaces>>),
         Phrase, Nothing>>,
       <<Cat(<<Lit("such", TRUE), Spaces, Lit("as", TRUE), Spaces>>),
         Phrase, Nothing>>,
       <<Cat(<<AnyLit(<<"about", "regarding", "concerning">>, TRUE), Spaces>>),
         Phrase, Nothing>> >>

\* the stripped matches of each pattern in turn
RECURSIVE PhrasesOf(_, _, _)
PhrasesOf(patterns, text, k) ==
    IF k > Len(patterns) THEN <<>>
    ELSE StripAll(FindAll(patterns[k], text)) \o PhrasesOf(patterns, text, k + 1)

_extract_focus_areas(description) == PhrasesOf(focus_patterns, description, 1)

\* re.findall(r'\b[a-zA-Z]{3,}\b', text): the runs of word characters that
\* are three or more letters and nothing else
LetterWords(text) ==
    {w \in Range(Pieces(text, "word")) :
        Len(w) >= 3 /\ \A i \in 1..Len(w) : Ch(w, i) \in Letters}

persona_stop_words ==
    {"the", "and", "for", "are", "but", "not", "you", "all", "can", "had",
     "her", "was", "one", "our", "out", "day", "get", "has", "him", "his",
     "how", "man", "new", "now", "old", "see", "two", "way", "who", "its",
     "said", "each", "make", "most", "over", "such", "very", "what", "with"}

job_stop_words ==
    persona_stop_words \cup {"given", "that", "this", "should", "will", "from"}

\* the keywords of the domains listed in self.domain_keywords
DomainKeywords(domains) ==
    UNION {Range(domain_keywords(domains[k])) : k \in DOMAIN domains}

_generate_persona_keywords(description, domains) ==
    (LetterWords(Lower(description)) \cup DomainKeywords(domains))
        \ persona_stop_words

analyze_persona(persona_description, expertise_domains) ==
    PersonaProfile(_extract_role(persona_description),
                   expertise_domains,
                   _extract_focus_areas(persona_description),
                   _determine_skill_level(persona_description),
                   _generate_persona_keywords(persona_description, expertise_domains))

goal_pattern ==
    <<Nothing,
      Cat(<<OneOf(UpperSet), Plus(OneOf(LowerSet)),
            Star(Cat(<<Spaces, Plus(OneOf(LowerSet))>>))>>),
      Nothing>>

_extract_primary_goal(job_description) ==
    IF MatchAt(goal_pattern, job_description, 1) # <<>>
    THEN GroupOf(job_description, MatchAt(goal_pattern, job_description, 1))
    ELSE Strip(BeforeFirstDot(job_description))

_extract_information_needs(job_description) ==
    PhrasesOf(need_patterns, job_description, 1)

\* _determine_deliverable_type testing the types from 'learning' up
DeliverableTypeFromLearningUp(job_description) ==
    FirstHit(Lower(job_description),
             <<"learning", "identification", "preparation", "review",
               "synthesis", "analysis">>, 1, "analysis", FALSE)

_determine_deliverable_type(job_description) ==
    FirstHit(Lower(job_description), job_type_names, 1, "analysis", FALSE)

_extract_priority_keywords(job_description) ==
    LetterWords(Lower(job_description)) \ job_stop_words

\* criteria_triggers with 'methodology' as the one word for its criterion
criteria_triggers_one_word ==
    << <<"Comprehensive coverage of topic", <<"comprehensive">> >>,
       <<"Clear methodology explanation", <<"methodology">> >>,
       <<"Performance metrics and results", <<"performance", "benchmark", "result">> >>,
       <<"Trend analysis and comparisons", <<"trend", "analysis", "compare">> >> >>

\* the criteria of _define_success_criteria and the words that call for each
criteria_triggers ==
    << <<"Comprehensive coverage of topic", <<"comprehensive">> >>,
       <<"Clear methodology explanation", <<"methodology", "method">> >>,
       <<"Performance metrics and results", <<"performance", "benchmark", "result">> >>,
       <<"Trend analysis and comparisons", <<"trend", "analysis", "compare">> >> >>

RECURSIVE CriteriaFrom(_, _)
CriteriaFrom(text, k) ==
    IF k > Len(criteria_triggers) THEN <<>>
    ELSE (IF AnyIndicator(text, criteria_triggers[k][2])
          THEN <<criteria_triggers[k][1]>> ELSE <<>>)
         \o CriteriaFrom(text, k + 1)

\* _define_success_criteria without the default criteria
CriteriaAsTriggered(job_description) == CriteriaFrom(Lower(job_description), 1)

_define_success_criteria(job_description) ==
    IF CriteriaFrom(Lower(job_description), 1) = <<>> THEN DefaultCriteria
    ELSE CriteriaFrom(Lower(job_description), 1)

analyze_job(job_description) ==
    JobRequirements(_extract_primary_goal(job_description),
                    _extract_information_needs(job_description),
                    _determine_deliverable_type(job_description),
                    _extract_priority_keywords(job_description),
                    _define_success_criteria(job_description))

(***************************************************************************)
(* OutputFormatter.  A value the program rounds to four places is held in  *)
(* ten-thousandths, a time in hundredths of a second                        *)
(***************************************************************************)

\* round(num / den): the nearest whole number, a tie going to the even one
RoundDiv(num, den) ==
    IF 2 * (num % den) < den THEN num \div den
    ELSE IF 2 * (num % den) > den THEN (num \div den) + 1
    ELSE IF (num \div den) % 2 = 0 THEN num \div den
    ELSE (num \div den) + 1

\* s.rfind(c): the 0-based index of the last c in s, -1 if there is none
RFind(s, c) ==
    IF \E i \in 1..Len(s) : Ch(s, i) = c
    THEN (CHOOSE i \in 1..Len(s) :
              Ch(s, i) = c /\ \A j \in (i + 1)..Len(s) : Ch(s, j) # c) - 1
    ELSE -1

\* truncated[:last_space] where last_space > max_length * 0.8
CutAtLastSpace(truncated, max_length) ==
    IF 10 * RFind(truncated, " ") > 8 * max_length
    THEN SubSeq(truncated, 1, RFind(truncated, " "))
    ELSE truncated

_truncate_content(content, max_length) ==
    IF Len(content) <= max_length THEN content
    ELSE CutAtLastSpace(SubSeq(content, 1, max_length), max_length) \o "..."

MaxContent == 500

\* section_data without the importance rank
SectionDataUnranked(scored_section) ==
    [document |-> scored_section.document,
     page_number |-> scored_section.section.page_number,
     section_title |-> scored_section.section.title,
     relevance_score |-> RoundDiv(scored_section.relevance_score, 10),
     persona_alignment |-> 10 * scored_section.persona_alignment,
     job_alignment |-> 10 * scored_section.job_alignment,
     section_content |-> _truncate_content(scored_section.section.content, MaxContent),
     section_number |-> scored_section.section.section_number]

\* section_data of format_output
SectionData(scored_section) ==
    [document |-> scored_section.document,
     page_number |-> scored_section.section.page_number,
     section_title |-> scored_section.section.title,
     importance_rank |-> scored_section.importance_rank,
     relevance_score |-> RoundDiv(scored_section.relevance_score, 10),
     persona_alignment |-> 10 * scored_section.persona_alignment,
     job_alignment |-> 10 * scored_section.job_alignment,
     section_content |-> _truncate_content(scored_section.section.content, MaxContent),
     section_number |-> scored_section.section.section_number]

\* subsection_data of format_output
SubsectionData(subsection) ==
    [document |-> subsection.document,
     page_number |-> subsection.page_number,
     refined_text |-> subsection.refined_text,
     parent_section |-> subsection.parent_section,
     relevance_score |-> subsection.relevance_score]

\* sum(len(doc.sections) for doc in documents)
RECURSIVE TotalSections(_)
TotalSections(docs) ==
    IF Len(docs) = 0 THEN 0
    ELSE Len(Head(docs).sections) + TotalSections(Tail(docs))

\* sum(s.relevance_score for s in sections)
RECURSIVE SumRelevance(_)
SumRelevance(sections) ==
    IF Len(sections) = 0 THEN 0
    ELSE Head(sections).relevance_score + SumRelevance(Tail(sections))

TimeLimit == 60

\* format_output without the importance rank in section_data
FormatOutputUnranked(docs, persona, job, sections, subsections, processing_time, timestamp) ==
    [metadata |->
        [input_documents |-> List([d \in DOMAIN docs |-> docs[d].filename]),
         persona |-> persona,
         job_to_be_done |-> job,
         processing_timestamp |-> timestamp,
         processing_time_seconds |-> processing_time],
     extracted_sections |->
        List([k \in DOMAIN sections |-> SectionDataUnranked(sections[k])]),
     subsection_analysis |->
        List([k \in DOMAIN subsections |-> SubsectionData(subsections[k])])]

\* format_output(documents, persona, job, sections, subsections,
\* processing_time), timestamp being what datetime.now().isoformat() gave
format_output(docs, persona, job, sections, subsections, processing_time, timestamp) ==
    [metadata |->
        [input_documents |-> List([d \in DOMAIN docs |-> docs[d].filename]),
         persona |-> persona,
         job_to_be_done |-> job,
         processing_timestamp |-> timestamp,
         processing_time_seconds |-> processing_time,
         total_documents_processed |-> Len(docs),
         total_sections_analyzed |-> TotalSections(docs),
         top_sections_selected |-> Len(sections),
         subsections_extracted |-> Len(subsections)],
     extracted_sections |->
        List([k \in DOMAIN sections |-> SectionData(sections[k])]),
     subsection_analysis |->
        List([k \in DOMAIN subsections |-> SubsectionData(subsections[k])]),
     summary |->
        [top_sections_count |-> Len(sections),
         subsections_count |-> Len(subsections),
         avg_section_relevance |->
            IF Len(sections) > 0
            THEN RoundDiv(SumRelevance(sections), 10 * Len(sections))
            ELSE 0,
         processing_performance |->
            [within_time_constraint |-> processing_time <= TimeLimit * 100,
             processing_efficiency |->
                IF processing_time > 0
                THEN RoundDiv(100 * 100 * Len(docs), processing_time)
                ELSE 0]]]

\* key in d for every key of keys
HasKeys(d, keys) == keys \subseteq DOMAIN d

validate_output_format(output) ==
    /\ HasKeys(output, {"metadata", "extracted_sections", "subsection_analysis"})
    /\ HasKeys(output.metadata,
               {"input_documents", "persona", "job_to_be_done",
                "processing_timestamp", "processing_time_seconds"})
    /\ \A k \in DOMAIN output.extracted_sections :
          HasKeys(output.extracted_sections[k],
                  {"document", "page_number", "section_title", "importance_rank"})
    /\ \A k \in DOMAIN output.subsection_analysis :
          HasKeys(output.subsection_analysis[k],
                  {"document", "page_number", "refined_text"})

(***************************************************************************)
(* DocumentProcessor                                                        *)
(***************************************************************************)

\* s.split(c): the pieces of s between the occurrences of the character c,
\* the empty ones included
RECURSIVE SplitOn(_, _)
SplitOn(s, c) ==
    IF \E i \in 1..Len(s) : Ch(s, i) = c
    THEN LET m == CHOOSE i \in 1..Len(s) :
                     Ch(s, i) = c /\ \A j \in 1..(i - 1) : Ch(s, j) # c
         IN  <<SubSeq(s, 1, m - 1)>> \o SplitOn(SubSeq(s, m + 1, Len(s)), c)
    ELSE <<s>>

\* s.startswith(prefix)
StartsWith(s, prefix) ==
    Len(s) >= Len(prefix) /\ SubSeq(s, 1, Len(prefix)) = prefix

\* s.isupper(): a cased character, and no lower-case one
IsUpper(s) ==
    /\ \E i \in 1..Len(s) : Ch(s, i) \in UpperSet
    /\ \A i \in 1..Len(s) : Ch(s, i) \notin LowerSet

\* int(text) for an optionally signed run of digits; the other forms int()
\* accepts (underscores) do not occur in the modelled inputs
ParseInt(text) == ParseFloat(text)

\* $ on a line without a newline
EndOfText == [op |-> "end"]
\* . and \d
AnyChar == NoneOf({"\n"})
Digit == OneOf(DigitChars)

\* \d+\.?\d*\.?\d*
NumberPattern ==
    Cat(<<Plus(Digit), Opt(OneOf({"."})), Star(Digit), Opt(OneOf({"."})),
          Star(Digit)>>)

\* self.section_patterns, all matched under re.IGNORECASE: the number of
\* groups of each and the pattern around its last group
section_patterns ==
    << [groups |-> 2,
        pattern |-> <<Cat(<<NumberPattern, Spaces>>), Plus(AnyChar), EndOfText>>],
       [groups |-> 2,
        pattern |-> <<Cat(<<Plus(OneOf({"I", "V", "X", "i", "v", "x"})),
                            Opt(OneOf({"."})), Star(Digit), Spaces>>),
                      Plus(AnyChar), EndOfText>>],
       [groups |-> 1,
        pattern |-> <<Nothing,
                      AnyLit(<<"Abstract", "Introduction", "Background",
                               "Methodology", "Methods", "Results", "Discussion",
                               "Conclusion", "References">>, TRUE),
                      Cat(<<Star(AnyChar), EndOfText>>)>>],
       [groups |-> 1,
        pattern |-> <<Nothing,
                      Alt(<<Cat(<<Lit("Chapter ", TRUE), Plus(Digit)>>),
                            Cat(<<Lit("Section ", TRUE), Plus(Digit)>>)>>),
                      Cat(<<Star(AnyChar), EndOfText>>)>>],
       [groups |-> 1,
        pattern |-> <<Nothing,
                      Cat(<<OneOf(Letters), Plus(OneOf(Letters \cup SpaceSet))>>),
                      EndOfText>>] >>

\* what the loop over self.section_patterns returns at the first pattern, k
\* or later, that matches the line; NoneStr if none does
RECURSIVE FirstPattern(_, _)
FirstPattern(line, k) ==
    IF k > Len(section_patterns) THEN NoneStr
    ELSE IF MatchAt(section_patterns[k].pattern, line, 1) # <<>>
    THEN IF section_patterns[k].groups >= 2
         THEN Some(Strip(GroupOf(line,
                                 MatchAt(section_patterns[k].pattern, line, 1))))
         ELSE Some(Strip(line))
    ELSE FirstPattern(line, k + 1)

\* the section title if the line is a header, NoneStr (None) otherwise
_is_section_header(line) ==
    IF Len(line) < 3 \/ Len(line) > 200 THEN NoneStr
    ELSE IF FirstPattern(line, 1) # NoneStr THEN FirstPattern(line, 1)
    ELSE IF /\ IsUpper(line)
            /\ Len(Split(line)) <= 8
            /\ \A i \in 1..Len(line) : Ch(line, i) \notin DigitChars
    THEN Some(Strip(line))
    ELSE NoneStr

_extract_section_number(title) ==
    IF MatchAt(<<Nothing, NumberPattern, Nothing>>, title, 1) # <<>>
    THEN Some(GroupOf(title, MatchAt(<<Nothing, NumberPattern, Nothing>>, title, 1)))
    ELSE IF MatchAt(<<Nothing, Plus(OneOf({"I", "V", "X"})), Nothing>>, title, 1) # <<>>
    THEN Some(GroupOf(title,
                      MatchAt(<<Nothing, Plus(OneOf({"I", "V", "X"})), Nothing>>,
                              title, 1)))
    ELSE NoneStr

\* f"{n}" for a natural number
RECURSIVE Decimal(_)
Decimal(n) ==
    IF n < 10 THEN <<"0", "1", "2", "3", "4", "5", "6", "7", "8", "9">>[n + 1]
    ELSE Decimal(n \div 10) \o Decimal(n % 10)

\* all_text of _process_single_document: the text of every page that has
\* some, each under its page marker; page_num are the pages still to add
RECURSIVE AllTextFrom(_, _)
AllTextFrom(pdf_pages, page_num) ==
    IF page_num > Len(pdf_pages) THEN ""
    ELSE (IF pdf_pages[page_num] # ""
          THEN "\n--- PAGE " \o Decimal(page_num) \o " ---\n" \o pdf_pages[page_num]
          ELSE "")
         \o AllTextFrom(pdf_pages, page_num + 1)

\* int(line.split()[2]) of a page marker line; ok = FALSE where it raises
PageOfMarker(line) ==
    IF Len(Split(line)) < 3 THEN [ok |-> FALSE, value |-> 0]
    ELSE ParseInt(Split(line)[3])

\* the section with its content lines joined
WithContent(section, content_lines) ==
    [section EXCEPT !.content = Strip(JoinWith("\n", content_lines))]

\* sections with the open section added, if it has content lines
SaveSection(section_list, open_section, content_lines) ==
    IF open_section # <<>> /\ content_lines # <<>>
    THEN Append(section_list, WithContent(open_section[1], content_lines))
    ELSE section_list

(***************************************************************************)
(* The inputs the calls are made with                                       *)
(***************************************************************************)

\* the largest max_sections and max_subsections a call is made with
MaxSectionsArg == 3
MaxSubsectionsArg == 2

AbstractText ==
    "Graph neural networks improve drug discovery in this survey. "
      \o "The Results show strong gains on benchmark datasets! Good?"
      \o Rep(" a", 50)

StudyText ==
    "The analysis method gives a clear result for the gene data. "
      \o "We study the protein model in the cell! "
      \o "We chart the protein model in the cell?"

LongText == "The algorithm uses data. " \o Rep("a ", 510)

secAbstract == DocumentSection("Abstract", AbstractText, 1, NoneStr)
secReferences == DocumentSection("References", "Smith 2020. Jones 2021.", 6, NoneStr)
secResults == DocumentSection("Results and Discussion", StudyText, 2, Some("2.1"))
secOverview == DocumentSection("Overview", StudyText, 2, Some("2.1"))
secMethods == DocumentSection("Methods", LongText, 4, Some("4"))
secNotes == DocumentSection("Notes", "", 1, Some("IV"))
secAppendix ==
    DocumentSection("Appendix", "   tiny note" \o Rep(" ", 15), 5, Some(""))
secGene == DocumentSection("Gene Graph", "gene graph drug", 3, Some("1"))

\* a body whose first fragment has exactly 20 characters when trimmed
secCited ==
    DocumentSection("Cited Work", "Brown and Green 2022. Smith 2020.", 7, NoneStr)
\* a body whose third sentence occurs inside its first
secEcho ==
    DocumentSection("Echo",
                    "We study the gene model in the cell today. "
                      \o "Nothing extraordinary happened. "
                      \o "We study the gene model in the cell.",
                    8, NoneStr)
\* no body under a title that holds keywords
secData == DocumentSection("Drug Review", "", 9, NoneStr)

\* three high-value terms in the title, an early section number, a body
\* of moderate length and an early page
secFull ==
    DocumentSection("Results and Analysis Summary",
                    "The findings are listed below." \o Rep(" a", 50), 1,
                    Some("1.2"))
\* a section number whose first component is no number
secAnnex == DocumentSection("Annex", "Notes for the  exam course. Nothing else was  written down.", 2, Some("A.1"))

docA == ProcessedDocument("a.pdf", <<secAbstract, secReferences>>)
\* a word of 520 characters across the place where the content is cut
secSequence ==
    DocumentSection("Sequence",
                    "The sequence is " \o Rep("acgt", 130) \o " in full.", 3,
                    NoneStr)
docS == ProcessedDocument("s.pdf", <<secFull, secAnnex, secSequence>>)
docD == ProcessedDocument("d.pdf", <<secCited, secEcho, secData>>)
docA2 == ProcessedDocument("a2.pdf", <<secAbstract, secReferences>>)
docB == ProcessedDocument("b.pdf", <<secResults, secOverview>>)
docC == ProcessedDocument("c.pdf", <<secMethods>>)
docE == ProcessedDocument("e.pdf", <<>>)
docG == ProcessedDocument("g.pdf", <<secGene>>)
docN == ProcessedDocument("n.pdf", <<secNotes, secAppendix>>)

DocumentLists ==
    { <<>>, <<docE>>, <<docC>>, <<docG>>, <<docB>>, <<docD>>, <<docS>>, <<docA, docA2>>,
      <<docA, docB>>, <<docN, docE, docC>> }

Personas ==
    { PersonaProfile("PhD Researcher",
                     <<"biology", "research", "computer_science">>,
                     <<"drug discovery", "protein model">>, "expert",
                     {"phd", "researcher", "gene", "graph", "drug"}),
      PersonaProfile("", <<>>, <<>>, "intermediate", {}),
      PersonaProfile("Student", <<"education">>, <<>>, "beginner",
                     {"student", "data"}) }

Jobs ==
    { JobRequirements("Prepare Graph Review",
                      <<"methodologies", "benchmark datasets", "strong gains",
                        "drug">>,
                      "review", {"review", "benchmark", "results"},
                      <<"Comprehensive coverage of topic">>),
      JobRequirements("", <<>>, "analysis", {}, DefaultCriteria) }

\* the processing times format_output is called with, in hundredths of a
\* second: none, the 2.5 s of test_system.py, and one beyond the limit
ProcessingTimes == {0, 250, TimeLimit * 100 + 1}

\* the persona and job texts format_output is called with
FormatTexts ==
    { <<"", "">>,
      <<"PhD Researcher in Computational Biology",
        "Prepare a comprehensive literature review focusing on methodologies, datasets, and performance benchmarks">> }

\* what datetime.now().isoformat() gives
Timestamps == {"2025-07-28T10:00:00.000000"}

\* the persona texts analyze_persona is called with
PersonaDescriptions ==
    { "",
      "   ",
      "PhD Researcher in Computational Biology",
      "Undergraduate Chemistry Student",
      "Senior Software Engineer",
      "Investment Analyst",
      "Graduate Student in Biology",
      "Lead Data Scientist specializing in machine learning, working with new models.",
      "Sales Manager",
      "Teacher",
      "Professor of Medicine focusing on patient treatment.",
      "journalist\tcovering the market" }

\* the job texts analyze_job is called with
JobDescriptions ==
    { "",
      "Prepare a comprehensive literature review focusing on methodologies, datasets, and performance benchmarks",
      "Analyze revenue trends and compare market positioning.",
      "Summarize the key findings.",
      "Identify key concepts for the exam, including reaction kinetics.",
      "Learn the method. Study results!",
      "Create a survey of methods",
      "Build a dashboard about sales performance",
      "what should this report say",
      "Evaluate the Benchmark",
      " .x",
      "Extract data such as names, regarding GDPR." }

\* the page texts of the documents _process_single_document is called on,
\* as page.extract_text() returns them
PdfPages ==
    { <<>>,
      <<" ">>,
      <<"2.1 Methods\nWe measured the samples twice.\n\n3 Results\nAll runs agree.">>,
      <<"Introduction\n  This paper is about 12 cells.  \nIt has 3 parts.", "",
        "More text, on page 3.\nCONCLUSION\n\nDone: 100%.">>,
      <<"plain text, no header here.\nsecond line: 42">>,
      <<"Abstract\n1 Introduction\nText (a) follows.", "2 Methods\nQ&A\n--- PAGE 9 ---\nIV Discussion">>,
      <<"VITAMINS\nAbout 5 of them.\n--- PAGE x ---\n1.2.3 Doses\n10 mg.">>,
      <<"Chapter 4: Heat\n4.1. Flow\n--- PAGE 7 ---\nHeat flows (1).\nSection 9\nIt stops.">>,
      <<"some words only\nValue: 3.5\nI think so\nYes, 1 time.">>,
      <<"3 4 Things\nok: yes.\n\t\nX.2 Annex\n(none)">>,
      <<"AB\nText 1.", "No. 2", "END OF FILE\n-- 3 --">>,
      <<"1 Scope", "Text, page 2.\n\n2. Terms\nTerm (a).\nTerm (b).", "3 Tests">>,
      <<"References [1]\n[1] Smith, 2020.\nresults: none\nsee above.">> }

(***************************************************************************)
(* The values of the operators above on the inputs of the model, each      *)
(* computed once                                                            *)
(***************************************************************************)

\* AllSections with an entry for every document, a document without
\* sections being entered with an empty section
AllSectionsPadded(docs) ==
    Concat(List([d \in DOMAIN docs |->
              IF docs[d].sections = <<>>
              THEN <<[doc_name |-> docs[d].filename,
                      section |-> DocumentSection("", "", 1, NoneStr)]>>
              ELSE List([i \in DOMAIN docs[d].sections |->
                      [doc_name |-> docs[d].filename,
                       section |-> docs[d].sections[i]]])]))

\* the worklist: (doc.filename, section) for every section of every document
AllSections(docs) ==
    Concat(List([d \in DOMAIN docs |->
              List([i \in DOMAIN docs[d].sections |->
                  [doc_name |-> docs[d].filename,
                   section |-> docs[d].sections[i]]])]))

SectionTexts(docs) ==
    LET all_sections == AllSections(docs)
    IN  List([i \in DOMAIN all_sections |-> all_sections[i].section.content])

WorkItems == UNION {Range(AllSections(d)) : d \in DocumentLists}

\* the four component scores of a section that do not need the vectorizer
SectionScores ==
    Map([x \in {w.section : w \in WorkItems} \X Personas \X Jobs |->
           [keyword_score |-> _calculate_keyword_score(x[1], x[2], x[3]),
            structural_score |-> _calculate_structural_score(x[1]),
            persona_alignment |-> _calculate_persona_alignment(x[1], x[2]),
            job_alignment |-> _calculate_job_alignment(x[1], x[3])]])

Fits == Map([texts \in {SectionTexts(d) : d \in DocumentLists} |-> Fit(texts)])

\* the states a vectorizer can be in
Vectorizers ==
    {UnfittedVectorizer} \cup {fit.vectorizer : fit \in Range(Fits)}

Transforms ==
    Map([x \in Vectorizers \X {QueryText(p, j) : p \in Personas, j \in Jobs} |->
           Transform(x[1], x[2])])

\* the trimmed fragments re.split(r'[.!?]+', content) leaves of every section
Fragments ==
    Map([section \in {w.section : w \in WorkItems} |->
           StripAll(Pieces(section.content, "sentence"))])

\* the retained sentences of every section
RetainedSentences ==
    Map([section \in {w.section : w \in WorkItems} |-> Sentences(section.content)])

\* what _score_sentence computes for a retained sentence: the number of
\* words it divides by, the three parts and the score
AllSentences ==
    UNION {Range(RetainedSentences[section]) : section \in DOMAIN RetainedSentences}

SentenceParts ==
    Map([x \in AllSentences \X Personas \X Jobs |->
           [words |-> WordCount(x[1]),
            keyword_density |-> sentence_keyword_score(x[1], x[2], x[3]),
            length_score |-> sentence_length_score(x[1]),
            quality_score |-> sentence_quality_score(x[1]),
            score |-> _score_sentence(x[1], x[2], x[3])]])

\* the refined text of every retained sentence of every section
RefinedTexts ==
    Map([section \in {w.section : w \in WorkItems} |->
           List([i \in DOMAIN Sentences(section.content) |->
                   _refine_sentence_with_context(Sentences(section.content)[i],
                                                 Sentences(section.content))])])

\* the ScoredSection of a worklist entry as far as extraction reads it
AsScored(item) == [document |-> item.doc_name, section |-> item.section]

\* _extract_section_subsections on a worklist entry, and whether it raises
Extracts ==
    Map([x \in WorkItems \X Personas \X Jobs \X (0..MaxSubsectionsArg) |->
           [raises |-> ExtractRaises(AsScored(x[1])),
            subsections |->
                IF ExtractRaises(AsScored(x[1])) THEN <<>>
                ELSE _extract_section_subsections(AsScored(x[1]),
                                                  x[2], x[3], x[4])]])

\* analyze_persona on each persona text: the profiles it can return
PersonaAnalyses ==
    Map([text \in PersonaDescriptions |->
            {analyze_persona(text, domains) :
                domains \in _extract_expertise_domains(text)}])

\* analyze_job on each job text
JobAnalyses == Map([text \in JobDescriptions |-> analyze_job(text)])

(***************************************************************************)
(* The run of main(): inputs, score_sections, extract_subsections, on one  *)
(* RelevanceScorer instance that serves any number of runs                  *)
(***************************************************************************)

VARIABLES
    pc,                \* "idle", "loaded", "scored", "extracted", "formatted"
    documents,         \* List[ProcessedDocument] of the run
    persona_profile,   \* PersonaProfile of the run
    job_requirements,  \* JobRequirements of the run
    tfidf_vectorizer,  \* self.tfidf_vectorizer
    arg_max_sections,  \* args.max_sections of the last score_sections call
    tfidf_ok,          \* whether its fit_transform returned a matrix
    component_scores,  \* its five component scores, in worklist order
    sort_order,        \* worklist positions in the order its sort left them
    ranked_sections,   \* what it returned
    arg_max_subsections, \* args.max_subsections of the last extract_subsections
    section_subsections, \* what each _extract_section_subsections returned
    sub_sections,      \* what it returned
    raised,            \* the exception the last call let escape, or "none"
    arg_persona,       \* the text analyze_persona was last called with
    arg_job,           \* the text analyze_job was last called with
    output_data,       \* what format_output returned, if it was called
    processor_pc,      \* "idle", "reading" (in _extract_sections), "returned"
    all_text,          \* the text _extract_sections was called with
    lines,             \* text.split('\n')
    line_index,        \* the place in lines of the line the loop is at
    doc_sections,      \* sections of _extract_sections
    current_section,   \* the open section, or none
    current_content,   \* the content lines of the open section
    current_page       \* the page of the last page marker read

vars == <<pc, documents, persona_profile, job_requirements,
          tfidf_vectorizer, arg_max_sections, tfidf_ok, component_scores,
          sort_order, ranked_sections,
          arg_max_subsections, section_subsections, sub_sections, raised,
          arg_persona, arg_job, output_data,
          processor_pc, all_text, lines, line_index, doc_sections,
          current_section, current_content, current_page>>

\* what main() holds apart from the document processor
main_vars ==
    <<pc, documents, persona_profile, job_requirements,
      tfidf_vectorizer, arg_max_sections, tfidf_ok, component_scores,
      sort_order, ranked_sections,
      arg_max_subsections, section_subsections, sub_sections, raised,
      arg_persona, arg_job, output_data>>

\* what a call of _extract_sections holds
processor_vars ==
    <<processor_pc, all_text, lines, line_index, doc_sections, current_section,
      current_content, current_page>>

Init ==
    /\ pc = "idle"
    /\ documents = <<>>
    /\ persona_profile = PersonaProfile("", <<>>, <<>>, "intermediate", {})
    /\ job_requirements = JobRequirements("", <<>>, "analysis", {}, DefaultCriteria)
    /\ tfidf_vectorizer = UnfittedVectorizer
    /\ arg_max_sections = 0
    /\ tfidf_ok = FALSE
    /\ component_scores = <<>>
    /\ sort_order = <<>>
    /\ ranked_sections = <<>>
    /\ arg_max_subsections = 0
    /\ section_subsections = <<>>
    /\ sub_sections = <<>>
    /\ raised = "none"
    /\ arg_persona = NoneStr
    /\ arg_job = NoneStr
    /\ output_data = <<>>
    /\ processor_pc = "idle"
    /\ all_text = ""
    /\ lines = <<>>
    /\ line_index = 1
    /\ doc_sections = <<>>
    /\ current_section = <<>>
    /\ current_content = <<>>
    /\ current_page = 1

\* the documents, the persona profile and the job requirements of a run
\* are produced, by main() or by any other caller of the scorer
LoadInputs(d, p, j) ==
    /\ documents' = d
    /\ persona_profile' = p
    /\ job_requirements' = j
    /\ pc' = "loaded"
    /\ arg_max_sections' = 0
    /\ tfidf_ok' = FALSE
    /\ component_scores' = <<>>
    /\ sort_order' = <<>>
    /\ ranked_sections' = <<>>
    /\ arg_max_subsections' = 0
    /\ section_subsections' = <<>>
    /\ sub_sections' = <<>>
    /\ raised' = "none"
    /\ output_data' = <<>>
    /\ UNCHANGED <<tfidf_vectorizer, arg_persona, arg_job>>
    /\ UNCHANGED processor_vars

\* self.tfidf_vectorizer.fit_transform(texts) on a vectorizer in state vec:
\* its new state and the matrix; where it raises, the vectorizer stays as
\* it was and tfidf_matrix is None (ok = FALSE)
FitOutcome(vec, fit) ==
    [ok |-> fit.ok,
     vectorizer |-> IF fit.ok THEN fit.vectorizer ELSE vec,
     rows |-> fit.matrix]

\* FitTransform on a scorer that fits its vectorizer once and afterwards
\* only transforms the texts with the vocabulary it has
FitTransformCached(vec, texts) ==
    IF vec.fitted
    THEN [ok |-> TRUE, vectorizer |-> vec,
          rows |-> List([i \in DOMAIN texts |-> Transform(vec, texts[i]).row])]
    ELSE FitOutcome(vec, Fits[texts])

FitTransform(vec, texts) == FitOutcome(vec, Fits[texts])

\* the cosine of the query row and the row of the section
QuerySimilarity(query_vector, row) ==
    IF ~query_vector.ok THEN 0 ELSE CosineSimilarity(query_vector.row, row)

\* _calculate_semantic_score falling back to the neutral 0.5 where
\* tfidf_matrix is None
SemanticScoreNeutral(vec, section, p, j, tfidf_matrix, section_index) ==
    IF ~tfidf_matrix.ok THEN Scale \div 2
    ELSE QuerySimilarity(Transforms[<<vec, QueryText(p, j)>>],
                         tfidf_matrix.rows[section_index])

\* tfidf_matrix is [ok |-> FALSE] for None; vec is self.tfidf_vectorizer
_calculate_semantic_score(vec, section, p, j, tfidf_matrix, section_index) ==
    IF ~tfidf_matrix.ok THEN 0
    ELSE QuerySimilarity(Transforms[<<vec, QueryText(p, j)>>],
                         tfidf_matrix.rows[section_index])

\* the loop body of score_sections for worklist entry i
ComponentScores(vec, tfidf_matrix, all_sections, p, j, i) ==
    [semantic_score |->
        _calculate_semantic_score(vec, all_sections[i].section, p, j,
                                  tfidf_matrix, i)]
      @@ SectionScores[<<all_sections[i].section, p, j>>]

\* WeightedScore with the weights of the keyword and the semantic
\* component exchanged
WeightedScoreExchanged(c) ==
    W_semantic_similarity * c.keyword_score
      + W_keyword_match * c.semantic_score
      + W_structural_importance * c.structural_score
      + W_persona_alignment * c.persona_alignment
      + W_job_alignment * c.job_alignment

\* the weighted overall score, in units of 1/(100*Scale)
WeightedScore(c) ==
    W_keyword_match * c.keyword_score
      + W_semantic_similarity * c.semantic_score
      + W_structural_importance * c.structural_score
      + W_persona_alignment * c.persona_alignment
      + W_job_alignment * c.job_alignment

\* the ScoredSection appended for a worklist entry with component scores c
Scored(item, c) ==
    ScoredSection(item.doc_name, item.section, WeightedScore(c),
                  c.persona_alignment, c.job_alignment, 0)

\* RankTop with enumerate() left at its default start of 0
RankTopFromZero(scored_sections, top) ==
    List([k \in DOMAIN top |->
            [scored_sections[top[k]] EXCEPT !.importance_rank = k - 1]])

\* scored_sections[:max_sections] with importance_rank = position + 1
RankTop(scored_sections, top) ==
    List([k \in DOMAIN top |->
            [scored_sections[top[k]] EXCEPT !.importance_rank = k]])

\* scored_sections.sort(...) and the top max_sections of it
SortAndRank(tfidf_matrix, comps, scored_sections, order, K) ==
    [vectorizer |-> tfidf_matrix.vectorizer,
     tfidf_ok |-> tfidf_matrix.ok,
     components |-> comps,
     order |-> order,
     result |-> RankTop(scored_sections, Take(order, K))]

SortScored(tfidf_matrix, comps, scored_sections, K) ==
    SortAndRank(tfidf_matrix, comps, scored_sections,
                SortOrder(RelevanceScores(scored_sections)), K)

ScoreComponents(tfidf_matrix, all_sections, comps, K) ==
    SortScored(tfidf_matrix, comps,
               List([i \in DOMAIN all_sections |->
                       Scored(all_sections[i], comps[i])]),
               K)

ScoreAll(tfidf_matrix, all_sections, p, j, K) ==
    ScoreComponents(tfidf_matrix, all_sections,
                    List([i \in DOMAIN all_sections |->
                            ComponentScores(tfidf_matrix.vectorizer, tfidf_matrix,
                                            all_sections, p, j, i)]),
                    K)

\* score_sections(documents, persona, job, max_sections) on a scorer whose
\* vectorizer is in state vec: everything the call computes
ScoreSectionsCall(vec, docs, p, j, K) ==
    IF Len(AllSections(docs)) = 0
    THEN [vectorizer |-> vec, tfidf_ok |-> FALSE, components |-> <<>>,
          order |-> <<>>, result |-> <<>>]
    ELSE ScoreAll(FitTransform(vec, SectionTexts(docs)), AllSections(docs),
                  p, j, K)

\* the sections with section.content = section.content.strip() done on them
StrippedSections(sections) ==
    List([i \in DOMAIN sections |->
            [sections[i] EXCEPT !.content = Strip(sections[i].content)]])

\* ScoreSections normalising the content of every Section in place before
\* it scores
ScoreSectionsStrippingInPlace(K) ==
    /\ pc \in {"loaded", "scored", "extracted"}
    /\ LET call == ScoreSectionsCall(tfidf_vectorizer, documents,
                                  persona_profile, job_requirements, K)
       IN  /\ tfidf_vectorizer' = call.vectorizer
           /\ tfidf_ok' = call.tfidf_ok
           /\ component_scores' = call.components
           /\ sort_order' = call.order
           /\ ranked_sections' = call.result
    /\ documents' =
          List([d \in DOMAIN documents |->
                  [documents[d] EXCEPT
                      !.sections = StrippedSections(documents[d].sections)]])
    /\ arg_max_sections' = K
    /\ pc' = "scored"
    /\ arg_max_subsections' = 0
    /\ section_subsections' = <<>>
    /\ sub_sections' = <<>>
    /\ raised' = "none"
    /\ UNCHANGED <<persona_profile, job_requirements,
                   arg_persona, arg_job, output_data>>
    /\ UNCHANGED processor_vars

ScoreSections(K) ==
    /\ pc \in {"loaded", "scored", "extracted"}
    /\ LET call == ScoreSectionsCall(tfidf_vectorizer, documents,
                                  persona_profile, job_requirements, K)
       IN  /\ tfidf_vectorizer' = call.vectorizer
           /\ tfidf_ok' = call.tfidf_ok
           /\ component_scores' = call.components
           /\ sort_order' = call.order
           /\ ranked_sections' = call.result
    /\ arg_max_sections' = K
    /\ pc' = "scored"
    /\ arg_max_subsections' = 0
    /\ section_subsections' = <<>>
    /\ sub_sections' = <<>>
    /\ raised' = "none"
    /\ UNCHANGED <<documents, persona_profile, job_requirements,
                   arg_persona, arg_job, output_data>>
    /\ UNCHANGED processor_vars

\* extract_subsections returning the SubSections as the sections gave them
ConcatenationOrder(subsections) == subsections

\* subsections.sort(key=..., reverse=True)
SortSubsections(subsections) ==
    Permute(subsections, SortOrder(RelevanceScores(subsections)))

ExtractOutcome(calls) ==
    IF \E i \in DOMAIN calls : calls[i].raises
    THEN [raised |-> "ZeroDivisionError", per_section |-> <<>>, result |-> <<>>]
    ELSE [raised |-> "none",
          per_section |-> List([i \in DOMAIN calls |-> calls[i].subsections]),
          result |-> SortSubsections(
                         Concat(List([i \in DOMAIN calls |-> calls[i].subsections])))]

\* extract_subsections(sections, persona, job, max_subsections):
\* everything the call computes
ExtractSubsectionsCall(sections, p, j, M) ==
    ExtractOutcome(List([i \in DOMAIN sections |->
                           Extracts[<<[doc_name |-> sections[i].document,
                                       section |-> sections[i].section],
                                      p, j, M>>]]))

ExtractSubsections(M) ==
    /\ pc = "scored"
    /\ arg_max_subsections' = M
    /\ LET call == ExtractSubsectionsCall(ranked_sections, persona_profile,
                                       job_requirements, M)
       IN  /\ raised' = call.raised
           /\ section_subsections' = call.per_section
           /\ sub_sections' = call.result
    /\ pc' = "extracted"
    /\ UNCHANGED <<documents, persona_profile, job_requirements,
                   tfidf_vectorizer, arg_max_sections, tfidf_ok,
                   component_scores, sort_order, ranked_sections,
                   arg_persona, arg_job, output_data>>
    /\ UNCHANGED processor_vars

\* output_data = output_formatter.format_output(documents, args.persona,
\* args.job, top_sections, subsections, processing_time), reached when
\* extract_subsections has returned
FormatOutput(persona, job, processing_time, timestamp) ==
    /\ pc = "extracted"
    /\ raised = "none"
    /\ output_data' =
          <<format_output(documents, persona, job, ranked_sections,
                          sub_sections, processing_time, timestamp)>>
    /\ pc' = "formatted"
    /\ UNCHANGED <<documents, persona_profile, job_requirements,
                   tfidf_vectorizer, arg_max_sections, tfidf_ok,
                   component_scores, sort_order, ranked_sections,
                   arg_max_subsections, section_subsections, sub_sections,
                   raised, arg_persona, arg_job>>
    /\ UNCHANGED processor_vars

Next ==
    \/ \E d \in DocumentLists, p \in Personas, j \in Jobs : LoadInputs(d, p, j)
    \/ \E K \in 0..MaxSectionsArg : ScoreSections(K)
    \/ \E M \in 0..MaxSubsectionsArg : ExtractSubsections(M)
    \/ \E texts \in FormatTexts, t \in ProcessingTimes, now \in Timestamps :
          FormatOutput(texts[1], texts[2], t, now)

Spec == Init /\ [][Next]_vars

(***************************************************************************)
(* The calls of PersonaAnalyzer: analyze_persona and analyze_job, each on  *)
(* any text, any number of times and in any order                          *)
(***************************************************************************)

\* what the scorer holds and returns, which the analyzer does not touch
scorer_vars ==
    <<pc, documents, tfidf_vectorizer, arg_max_sections, tfidf_ok,
      component_scores, sort_order, ranked_sections, arg_max_subsections,
      section_subsections, sub_sections, raised, output_data>>

\* persona_profile = persona_analyzer.analyze_persona(persona_description);
\* the order of its expertise domains is any order of the set
AnalyzePersona(text) ==
    /\ arg_persona' = Some(text)
    /\ persona_profile' \in PersonaAnalyses[text]
    /\ UNCHANGED <<arg_job, job_requirements>>
    /\ UNCHANGED scorer_vars
    /\ UNCHANGED processor_vars

\* job_requirements = persona_analyzer.analyze_job(job_description)
AnalyzeJob(text) ==
    /\ arg_job' = Some(text)
    /\ job_requirements' = JobAnalyses[text]
    /\ UNCHANGED <<arg_persona, persona_profile>>
    /\ UNCHANGED scorer_vars
    /\ UNCHANGED processor_vars

AnalyzerNext ==
    \/ \E text \in PersonaDescriptions : AnalyzePersona(text)
    \/ \E text \in JobDescriptions : AnalyzeJob(text)

AnalyzerSpec == Init /\ [][AnalyzerNext]_vars

(***************************************************************************)
(* _process_single_document and the loop of _extract_sections, a line a    *)
(* step, on the pages of any document, any number of times                 *)
(***************************************************************************)

\* the line the loop is at, stripped
Line == Strip(lines[line_index])

InLoop == processor_pc = "reading" /\ line_index <= Len(lines)

\* sections = self._extract_sections(all_text), up to the loop
ExtractSections(pdf_pages) ==
    /\ processor_pc \in {"idle", "returned"}
    /\ all_text' = AllTextFrom(pdf_pages, 1)
    /\ lines' = SplitOn(AllTextFrom(pdf_pages, 1), "\n")
    /\ line_index' = 1
    /\ doc_sections' = <<>>
    /\ current_section' = <<>>
    /\ current_content' = <<>>
    /\ current_page' = 1
    /\ processor_pc' = "reading"
    /\ UNCHANGED main_vars

\* a line that starts with '--- PAGE '
PageMarkerLine ==
    /\ InLoop
    /\ StartsWith(Line, "--- PAGE ")
    /\ current_page' = IF PageOfMarker(Line).ok THEN PageOfMarker(Line).value
                       ELSE current_page
    /\ line_index' = line_index + 1
    /\ UNCHANGED <<processor_pc, all_text, lines, doc_sections, current_section,
                   current_content>>
    /\ UNCHANGED main_vars

\* a header line: the open section is saved and a new one is started
HeaderLine ==
    /\ InLoop
    /\ ~StartsWith(Line, "--- PAGE ")
    /\ _is_section_header(Line) \notin {NoneStr, Some("")}
    /\ doc_sections' = SaveSection(doc_sections, current_section, current_content)
    /\ current_section' =
          <<DocumentSection(_is_section_header(Line)[1], "", current_page,
                            _extract_section_number(_is_section_header(Line)[1]))>>
    /\ current_content' = <<>>
    /\ line_index' = line_index + 1
    /\ UNCHANGED <<processor_pc, all_text, lines, current_page>>
    /\ UNCHANGED main_vars

\* any other line: it is added to the content unless it is empty
ContentLine ==
    /\ InLoop
    /\ ~StartsWith(Line, "--- PAGE ")
    /\ _is_section_header(Line) \in {NoneStr, Some("")}
    /\ current_content' = IF Line # "" THEN Append(current_content, Line)
                          ELSE current_content
    /\ line_index' = line_index + 1
    /\ UNCHANGED <<processor_pc, all_text, lines, doc_sections, current_section,
                   current_page>>
    /\ UNCHANGED main_vars

\* the sections returned when no section was found
WhenNoSections(section_list, whole_text) ==
    IF section_list = <<>> /\ Strip(whole_text) # ""
    THEN <<DocumentSection("Document Content", Strip(whole_text), 1, NoneStr)>>
    ELSE section_list

\* ReturnSections without the step after the loop that saves the open section
ReturnSectionsAsInLoop ==
    /\ processor_pc = "reading"
    /\ line_index > Len(lines)
    /\ doc_sections' = WhenNoSections(doc_sections, all_text)
    /\ processor_pc' = "returned"
    /\ UNCHANGED <<all_text, lines, line_index, current_section, current_content,
                   current_page>>
    /\ UNCHANGED main_vars

\* after the loop: the final section, the section of a text without
\* sections, return
ReturnSections ==
    /\ processor_pc = "reading"
    /\ line_index > Len(lines)
    /\ doc_sections' =
          WhenNoSections(SaveSection(doc_sections, current_section, current_content),
                         all_text)
    /\ processor_pc' = "returned"
    /\ UNCHANGED <<all_text, lines, line_index, current_section, current_content,
                   current_page>>
    /\ UNCHANGED main_vars

ProcessorNext ==
    \/ \E pdf_pages \in PdfPages : ExtractSections(pdf_pages)
    \/ PageMarkerLine
    \/ HeaderLine
    \/ ContentLine
    \/ ReturnSections

ProcessorSpec == Init /\ [][ProcessorNext]_vars



(***************************************************************************)
(* Properties of score_sections and extract_subsections                     *)
(***************************************************************************)

\* the worklist score_sections builds from the documents of the run
Worklist == AllSections(documents)

\* score_sections has returned in this run
AfterScoring == pc \in {"scored", "extracted"}

\* the weighted score of worklist entry i in the last score_sections call
ScoreAt(i) == WeightedScore(component_scores[i])

\* C1: for every K >= 0 and every list of documents, score_sections returns
\* exactly min(K, total number of sections) elements, and their
\* importance_rank values are 1, 2, ..., len(result) in list order
C1_CountAndRanks ==
    AfterScoring =>
        /\ Len(ranked_sections) = Min(arg_max_sections, Len(Worklist))
        /\ \A k \in DOMAIN ranked_sections :
              ranked_sections[k].importance_rank = k

\* the cutoff drops sections and more than one section is ranked
C1_Witness ==
    /\ AfterScoring
    /\ Len(ranked_sections) >= 2
    /\ Len(ranked_sections) = arg_max_sections
    /\ Len(Worklist) > arg_max_sections

\* C2: the list score_sections returns is the first max_sections elements
\* of the worklist sorted by relevance_score in descending order, sections
\* of equal relevance_score keeping their worklist order
C2_StableDescendingPrefix ==
    AfterScoring =>
        /\ Len(sort_order) = Len(Worklist)
        /\ Range(sort_order) = 1..Len(Worklist)
        /\ \A k, l \in DOMAIN sort_order :
              k < l =>
                \/ ScoreAt(sort_order[k]) > ScoreAt(sort_order[l])
                \/ /\ ScoreAt(sort_order[k]) = ScoreAt(sort_order[l])
                   /\ sort_order[k] < sort_order[l]
        /\ Len(ranked_sections) <= Len(sort_order)
        /\ \A k \in DOMAIN ranked_sections :
              /\ ranked_sections[k].document = Worklist[sort_order[k]].doc_name
              /\ ranked_sections[k].section = Worklist[sort_order[k]].section
              /\ ranked_sections[k].relevance_score = ScoreAt(sort_order[k])

\* two returned sections tie, a section is dropped, and the order differs
\* from the worklist order
C2_Witness ==
    /\ AfterScoring
    /\ Len(ranked_sections) < Len(Worklist)
    /\ \E k, l \in DOMAIN ranked_sections :
          /\ k < l
          /\ ranked_sections[k].relevance_score = ranked_sections[l].relevance_score
    /\ \E k \in DOMAIN ranked_sections : sort_order[k] # k

InUnit(x) == x \in 0..Scale

ComponentsInUnit(c) ==
    /\ InUnit(c.keyword_score)
    /\ InUnit(c.semantic_score)
    /\ InUnit(c.structural_score)
    /\ InUnit(c.persona_alignment)
    /\ InUnit(c.job_alignment)

\* the keywords of the profile and the requirements of the run
RunKeywords == persona_profile.keywords \cup job_requirements.priority_keywords

\* C3: for every section scored with a non-empty combined keyword set, each
\* of the five component scores lies in [0,1], and so do the
\* relevance_score, persona_alignment and job_alignment of every returned
\* ScoredSection
C3_ScoresInUnitInterval ==
    (AfterScoring /\ RunKeywords # {}) =>
        /\ \A i \in DOMAIN component_scores : ComponentsInUnit(component_scores[i])
        /\ \A k \in DOMAIN ranked_sections :
              /\ ranked_sections[k].relevance_score \in 0..(100 * Scale)
              /\ InUnit(ranked_sections[k].persona_alignment)
              /\ InUnit(ranked_sections[k].job_alignment)

\* a returned section whose job alignment is held at 1.0 and whose other
\* components are all positive
C3_Witness ==
    /\ AfterScoring
    /\ RunKeywords # {}
    /\ \E k \in DOMAIN ranked_sections :
          /\ ranked_sections[k].job_alignment = Scale
          /\ component_scores[sort_order[k]].keyword_score > 0
          /\ component_scores[sort_order[k]].semantic_score > 0
          /\ component_scores[sort_order[k]].structural_score > 0
          /\ component_scores[sort_order[k]].persona_alignment > 0

\* the state holds what the call has computed
SameOutcome(call) ==
    /\ ranked_sections = call.result
    /\ sort_order = call.order
    /\ component_scores = call.components

\* C4: the result of a score_sections call (order, scores and ranks)
\* depends only on the call's arguments, whatever calls the scorer served
\* before: it is the result of the same call on a newly constructed scorer
C4_HistoryIndependent ==
    AfterScoring =>
        SameOutcome(ScoreSectionsCall(UnfittedVectorizer, documents,
                                      persona_profile, job_requirements,
                                      arg_max_sections))

\* a call whose vectorization failed, on a scorer whose vectorizer an
\* earlier call fitted to another corpus
C4_Witness ==
    /\ AfterScoring
    /\ ~tfidf_ok
    /\ tfidf_vectorizer.fitted
    /\ Len(ranked_sections) >= 2

\* building the TF-IDF vector space of the run's section texts fails
FitFails == ~Fits[SectionTexts(documents)].ok

\* the four components that do not need the vectorizer are as computed
UsualComponents(c, usual) ==
    /\ c.keyword_score = usual.keyword_score
    /\ c.structural_score = usual.structural_score
    /\ c.persona_alignment = usual.persona_alignment
    /\ c.job_alignment = usual.job_alignment

\* C5: if building the TF-IDF vector space fails during a score_sections
\* call, the semantic component is 0 for every section, the other four
\* components are computed as usual, and the call returns the ranked list
\* of min(max_sections, total sections) elements instead of raising
C5_FitFailureDegrades ==
    (AfterScoring /\ Len(Worklist) > 0 /\ FitFails) =>
        /\ raised = "none"
        /\ ~tfidf_ok
        /\ Len(component_scores) = Len(Worklist)
        /\ \A i \in DOMAIN component_scores :
              /\ component_scores[i].semantic_score = 0
              /\ UsualComponents(component_scores[i],
                                 SectionScores[<<Worklist[i].section,
                                                 persona_profile,
                                                 job_requirements>>])
        /\ Len(ranked_sections) = Min(arg_max_sections, Len(Worklist))

\* the fit fails on a corpus of several sections, and sections with
\* positive keyword scores are returned
C5_Witness ==
    /\ AfterScoring
    /\ FitFails
    /\ Len(Worklist) >= 2
    /\ Len(ranked_sections) = Len(Worklist)
    /\ \E i \in DOMAIN component_scores : component_scores[i].keyword_score > 0

\* the documents supply no section
NoSections == \A d \in DOMAIN documents : documents[d].sections = <<>>

\* C6: when the documents supply no sections, score_sections returns an
\* empty list without raising; extract_subsections given an empty list of
\* ranked sections returns an empty list without raising
C6_EmptyInputs ==
    /\ (AfterScoring /\ NoSections) =>
          (ranked_sections = <<>> /\ raised = "none")
    /\ (pc = "extracted" /\ ranked_sections = <<>>) =>
          (sub_sections = <<>> /\ raised = "none")

\* a document without sections has been scored with a positive max_sections
\* and the empty result handed to extract_subsections
C6_Witness ==
    /\ pc = "extracted"
    /\ documents # <<>>
    /\ NoSections
    /\ arg_max_sections > 0
    /\ arg_max_subsections > 0

\* the stored fields of a ScoredSection against the components it was made of
WeightedSumOf(scored, c) ==
    /\ scored.relevance_score =
          30 * c.keyword_score + 20 * c.semantic_score
            + 20 * c.structural_score + 15 * c.persona_alignment
            + 15 * c.job_alignment
    /\ scored.persona_alignment = c.persona_alignment
    /\ scored.job_alignment = c.job_alignment

\* C7: the relevance_score of every ScoredSection equals 0.30*keyword +
\* 0.20*semantic + 0.20*structural + 0.15*persona_alignment +
\* 0.15*job_alignment, the weights sum to 1, and the stored
\* persona_alignment and job_alignment are the unweighted components
C7_WeightedSum ==
    AfterScoring =>
        /\ W_keyword_match + W_semantic_similarity + W_structural_importance
             + W_persona_alignment + W_job_alignment = 100
        /\ \A k \in DOMAIN ranked_sections :
              WeightedSumOf(ranked_sections[k], component_scores[sort_order[k]])

\* a returned section with five positive components, keyword and semantic
\* score differing
C7_Witness ==
    /\ AfterScoring
    /\ \E k \in DOMAIN ranked_sections :
          /\ component_scores[sort_order[k]].keyword_score
               # component_scores[sort_order[k]].semantic_score
          /\ component_scores[sort_order[k]].keyword_score > 0
          /\ component_scores[sort_order[k]].semantic_score > 0
          /\ component_scores[sort_order[k]].structural_score > 0
          /\ component_scores[sort_order[k]].persona_alignment > 0
          /\ component_scores[sort_order[k]].job_alignment > 0
          /\ component_scores[sort_order[k]].persona_alignment < Scale

\* the title contains one of the high-value terms
HasHighValueTerm(title) == AnyIn(high_value_terms, Lower(title))

\* two sections identical except for the title, the first title without a
\* high-value term and the second with one
TitledPair(plain, titled) ==
    /\ [plain EXCEPT !.title = ""] = [titled EXCEPT !.title = ""]
    /\ ~HasHighValueTerm(plain.title)
    /\ HasHighValueTerm(titled.title)

\* C8: for two sections identical except for the title, one title with none
\* of the high-value terms and the other with at least one, the structural
\* score of the second is exactly 0.3 higher than that of the first
C8_TitleBonus ==
    AfterScoring =>
        \A a, b \in DOMAIN component_scores :
            TitledPair(Worklist[a].section, Worklist[b].section) =>
                component_scores[b].structural_score
                  = component_scores[a].structural_score + 300

\* such a pair has been scored, the second title holding two of the terms
C8_Witness ==
    /\ AfterScoring
    /\ \E a, b \in DOMAIN component_scores :
          /\ TitledPair(Worklist[a].section, Worklist[b].section)
          /\ Contains(Lower(Worklist[b].section.title), "results")
          /\ Contains(Lower(Worklist[b].section.title), "discussion")

\* the body yields no fragment that is retained; in particular it is empty
\* or shorter than 20 characters once trimmed
NothingRetained(section) ==
    \A i \in DOMAIN Fragments[section] : Len(Fragments[section][i]) <= 20

\* b holds the elements of a, each as often as a does
SameElements(a, b) ==
    /\ Len(a) = Len(b)
    /\ \A i \in DOMAIN a : CountIn(a, a[i]) = CountIn(b, a[i])

\* C9: for a section whose body yields no fragment long enough to be
\* retained, extract_subsections produces no SubSection and raises no
\* exception, and the subsections of the other sections of the call are
\* still produced
C9_NoFragmentNoSubSection ==
    pc = "extracted" =>
        /\ raised = "none"
        /\ Len(section_subsections) = Len(ranked_sections)
        /\ \A i \in DOMAIN ranked_sections :
              IF NothingRetained(ranked_sections[i].section)
              THEN /\ section_subsections[i] = <<>>
                   /\ \A k \in DOMAIN sub_sections :
                         ~(/\ sub_sections[k].document = ranked_sections[i].document
                           /\ sub_sections[k].parent_section
                                = ranked_sections[i].section.title)
              ELSE arg_max_subsections > 0 => section_subsections[i] # <<>>
        /\ SameElements(Concat(section_subsections), sub_sections)

\* a call on a section whose body is longer than 20 characters but shorter
\* once trimmed, on a section with an empty body, and on a section that
\* yields subsections
C9_Witness ==
    /\ pc = "extracted"
    /\ \E i \in DOMAIN ranked_sections :
          /\ Len(ranked_sections[i].section.content) > 20
          /\ Len(Strip(ranked_sections[i].section.content)) < 20
    /\ \E i \in DOMAIN ranked_sections : ranked_sections[i].section.content = ""
    /\ sub_sections # <<>>

\* the parts of a sentence score are in their ranges and make up the score
PartsInRange(parts) ==
    /\ parts.words > 0
    /\ InUnit(parts.keyword_density)
    /\ parts.length_score \in 100..Scale
    /\ parts.quality_score \in {0, 300}
    /\ parts.score = 6 * parts.keyword_density + 2 * parts.length_score
                       + 2 * parts.quality_score
    /\ parts.score \in 0..(10 * Scale)

\* the SubSection carries the score of a retained sentence of the section
ScoreOfSentence(subsection, section) ==
    \E s \in Range(RetainedSentences[section]) :
        subsection.relevance_score
          = SentenceParts[<<s, persona_profile, job_requirements>>].score

\* C10: every SubSection returned by extract_subsections has a
\* relevance_score in [0,1], for any text, profile and requirements
\* (empty keyword sets included): it is 0.6*keyword_density +
\* 0.2*length_score + 0.2*quality_score with keyword_density in [0,1],
\* length_score in [0.1,1] and quality_score in {0, 0.3}, and computing it
\* never divides by zero for a retained sentence
C10_SubSectionScore ==
    pc = "extracted" =>
        /\ raised # "ZeroDivisionError"
        /\ \A k \in DOMAIN sub_sections :
              sub_sections[k].relevance_score \in 0..(10 * Scale)
        /\ \A i \in DOMAIN ranked_sections :
              /\ \A s \in Range(RetainedSentences[ranked_sections[i].section]) :
                    PartsInRange(SentenceParts[<<s, persona_profile,
                                                 job_requirements>>])
              /\ \A k \in DOMAIN section_subsections[i] :
                    ScoreOfSentence(section_subsections[i][k],
                                    ranked_sections[i].section)

\* with no keywords at all, a SubSection of a sentence long enough for the
\* floor of the length score to hold is returned beside one of a sentence
\* of fewer than five words
C10_Witness ==
    /\ pc = "extracted"
    /\ RunKeywords = {}
    /\ \E k \in DOMAIN sub_sections : sub_sections[k].relevance_score = 2 * 100
    /\ \E k \in DOMAIN sub_sections : sub_sections[k].relevance_score = 2 * 500


\* the scores of the retained sentences of a section under the profile and
\* the requirements of the run, in sentence order
RunSentenceScores(section) ==
    List([i \in DOMAIN RetainedSentences[section] |->
            SentenceParts[<<RetainedSentences[section][i], persona_profile,
                            job_requirements>>].score])

\* the place of entry i in a descending order of the scores that keeps equal
\* scores in their original order
PlaceAmong(scores, i) ==
    Cardinality({j \in DOMAIN scores : scores[j] > scores[i]})
      + Cardinality({j \in 1..(i - 1) : scores[j] = scores[i]}) + 1

\* subs are the SubSections of the M best sentences, best first
BestSentences(subs, scores, texts, M) ==
    /\ Len(subs) = Min(M, Len(scores))
    /\ \A k \in DOMAIN subs :
          \E i \in DOMAIN scores :
              /\ PlaceAmong(scores, i) = k
              /\ subs[k].relevance_score = scores[i]
              /\ subs[k].refined_text = texts[i]

\* the lengths of the lists of a list, added up
RECURSIVE TotalLength(_)
TotalLength(lists) ==
    IF Len(lists) = 0 THEN 0 ELSE Len(Head(lists)) + TotalLength(Tail(lists))

\* C11: for max_subsections = M >= 0 extract_subsections returns, for each
\* input section, exactly min(M, number of retained sentences) SubSections
\* (the highest-scoring sentences, ties broken by sentence order); the
\* combined list is sorted by relevance_score descending and its total
\* length is not capped
C11_PerSectionCapAndOrder ==
    pc = "extracted" =>
        /\ Len(section_subsections) = Len(ranked_sections)
        /\ \A i \in DOMAIN ranked_sections :
              BestSentences(section_subsections[i],
                            RunSentenceScores(ranked_sections[i].section),
                            RefinedTexts[ranked_sections[i].section],
                            arg_max_subsections)
        /\ \A k, l \in DOMAIN sub_sections :
              k < l => sub_sections[k].relevance_score
                         >= sub_sections[l].relevance_score
        /\ Len(sub_sections) = TotalLength(section_subsections)
        /\ SameElements(Concat(section_subsections), sub_sections)

\* the cap cuts a section with two equal best-but-one sentences, the
\* combined list is longer than the cap, and sorting has reordered it
C11_Witness ==
    /\ pc = "extracted"
    /\ arg_max_subsections = 2
    /\ Len(sub_sections) > arg_max_subsections
    /\ sub_sections # Concat(section_subsections)
    /\ \E i \in DOMAIN ranked_sections :
          /\ Len(RunSentenceScores(ranked_sections[i].section)) = 3
          /\ RunSentenceScores(ranked_sections[i].section)[2]
               = RunSentenceScores(ranked_sections[i].section)[3]
          /\ RunSentenceScores(ranked_sections[i].section)[1]
               > RunSentenceScores(ranked_sections[i].section)[2]


\* the SubSection holds the five fields of the dataclass and nothing else
FiveFields(sub) ==
    DOMAIN sub = {"document", "page_number", "refined_text", "parent_section",
                  "relevance_score"}

\* the SubSection carries the document, the page number and the title of
\* the ScoredSection, and a text made of sentences of its body
TakenFrom(sub, scored) ==
    /\ sub.document = scored.document
    /\ sub.page_number = scored.section.page_number
    /\ sub.parent_section = scored.section.title
    /\ sub.refined_text \in Range(RefinedTexts[scored.section])

\* C12: every SubSection returned by extract_subsections carries, copied as
\* plain values, the document identifier, the page number and the title of
\* the ScoredSection from whose body its sentence was taken; none
\* originates from a section outside the ranked list passed in, and none
\* holds a reference to a Section object
C12_SubSectionProvenance ==
    pc = "extracted" =>
        /\ \A i \in DOMAIN section_subsections :
              \A k \in DOMAIN section_subsections[i] :
                  /\ FiveFields(section_subsections[i][k])
                  /\ TakenFrom(section_subsections[i][k], ranked_sections[i])
        /\ \A k \in DOMAIN sub_sections :
              /\ FiveFields(sub_sections[k])
              /\ \E i \in DOMAIN ranked_sections :
                    TakenFrom(sub_sections[k], ranked_sections[i])

\* SubSections of two documents are returned while a section of the
\* documents was left out of the ranked list
C12_Witness ==
    /\ pc = "extracted"
    /\ Len(ranked_sections) < Len(Worklist)
    /\ \E k, l \in DOMAIN sub_sections :
          /\ sub_sections[k].document # sub_sections[l].document
          /\ sub_sections[k].page_number # sub_sections[l].page_number


\* a step is a call of score_sections or of extract_subsections
CallStep == pc' \in {"scored", "extracted"}

\* the Section records the results of the run hold are those of the documents
SectionsOfDocuments ==
    \A k \in DOMAIN ranked_sections :
        \E i \in DOMAIN Worklist : ranked_sections[k].section = Worklist[i].section

\* C13: score_sections and extract_subsections leave their inputs
\* unchanged: after any sequence of calls the documents and their Section
\* records, the PersonaProfile and the JobRequirements have the values they
\* had before, and the Section records of the results are those of the
\* documents; besides the objects the calls create, only the scorer's own
\* tfidf_vectorizer is written
C13_InputsUnchanged ==
    [][CallStep =>
          /\ documents' = documents
          /\ persona_profile' = persona_profile
          /\ job_requirements' = job_requirements
          /\ SectionsOfDocuments']_vars

\* both calls have been made on documents that hold a section whose content
\* has blanks around it
C13_Witness ==
    /\ pc = "extracted"
    /\ sub_sections # <<>>
    /\ \E i \in DOMAIN Worklist :
          Strip(Worklist[i].section.content) # Worklist[i].section.content

\* C13 as stated: the calls write only to the ScoredSection and SubSection
\* objects they create, so that the inputs and every other object, the
\* scorer's tfidf_vectorizer included, are as they were before the call
C13_WritesOnlyResults ==
    [][CallStep =>
          /\ documents' = documents
          /\ persona_profile' = persona_profile
          /\ job_requirements' = job_requirements
          /\ tfidf_vectorizer' = tfidf_vectorizer]_vars

(***************************************************************************)
(* Properties of analyze_persona and analyze_job                            *)
(***************************************************************************)

\* a PersonaProfile and a JobRequirements with every field of the dataclass
IsProfile(p) ==
    DOMAIN p = {"role", "expertise_domains", "focus_areas", "skill_level", "keywords"}
IsRequirements(j) ==
    DOMAIN j = {"primary_goal", "information_needs", "deliverable_type",
                "priority_keywords", "success_criteria"}

\* C14: analyze_persona and analyze_job raise for no text, and for the
\* empty string they return the default profiles: empty role, skill level
\* 'intermediate', no expertise domains, no focus areas and no keywords
\* for the persona; empty primary goal, no information needs, deliverable
\* type 'analysis', no priority keywords and the three default success
\* criteria for the job
C14_EmptyTextDefaults ==
    /\ raised = "none"
    /\ IsProfile(persona_profile)
    /\ IsRequirements(job_requirements)
    /\ arg_persona = Some("") =>
          persona_profile =
              [role |-> "", expertise_domains |-> <<>>, focus_areas |-> <<>>,
               skill_level |-> "intermediate", keywords |-> {}]
    /\ arg_job = Some("") =>
          job_requirements =
              [primary_goal |-> "", information_needs |-> <<>>,
               deliverable_type |-> "analysis", priority_keywords |-> {},
               success_criteria |-> <<"Relevant content extraction",
                                      "Clear organization",
                                      "Actionable insights">>]

\* both calls have been made with the empty string
C14_Witness == arg_persona = Some("") /\ arg_job = Some("")

\* the positions k of names at which one of the words of words[k] occurs
\* in the lower-cased text
HitsIn(text, words) ==
    {k \in DOMAIN words :
        \E n \in DOMAIN words[k] : Contains(Lower(text), words[k][n])}

\* names[k] for the least k of hits, default if there is none
EarliestOf(names, hits, default) ==
    IF hits = {} THEN default
    ELSE names[CHOOSE k \in hits : \A h \in hits : k <= h]

SkillTiers == <<"beginner", "intermediate", "advanced", "expert">>
SkillTierWords ==
    << <<"student", "undergraduate", "learner", "new", "entry-level">>,
       <<"graduate", "analyst", "associate", "junior">>,
       <<"senior", "manager", "specialist", "experienced">>,
       <<"phd", "professor", "director", "principal", "chief", "lead", "expert">> >>

\* C15: the skill level of a persona text is the first of beginner,
\* intermediate, advanced, expert one of whose indicators occurs in the
\* lower-cased text, and 'intermediate' when none has one; a text that
\* hits several levels gets the earliest
C15_SkillLevelFirstHit ==
    arg_persona # NoneStr =>
        persona_profile.skill_level =
            EarliestOf(SkillTiers, HitsIn(arg_persona[1], SkillTierWords),
                       "intermediate")

\* a text with an indicator of 'beginner' and one of 'expert' was analysed
C15_Witness ==
    /\ arg_persona # NoneStr
    /\ 1 \in HitsIn(arg_persona[1], SkillTierWords)
    /\ 4 \in HitsIn(arg_persona[1], SkillTierWords)
    /\ persona_profile.skill_level = "beginner"

DeliverableTypes ==
    <<"analysis", "synthesis", "review", "preparation", "identification",
      "learning">>
DeliverableTypeWords ==
    << <<"analyze", "analysis", "examine", "evaluate", "assess", "compare">>,
       <<"summarize", "compile", "integrate", "combine", "consolidate">>,
       <<"review", "survey", "overview", "comprehensive", "literature">>,
       <<"prepare", "create", "develop", "design", "build">>,
       <<"identify", "find", "locate", "extract", "select">>,
       <<"learn", "study", "understand", "master", "practice">> >>

\* C16: the deliverable type of a job text is the first of analysis,
\* synthesis, review, preparation, identification, learning one of whose
\* indicator words occurs in the lower-cased text, and 'analysis' when
\* none has one
C16_DeliverableTypeFirstHit ==
    arg_job # NoneStr =>
        job_requirements.deliverable_type =
            EarliestOf(DeliverableTypes, HitsIn(arg_job[1], DeliverableTypeWords),
                       "analysis")

\* a job text with words of 'review' and of 'preparation' was analysed
C16_Witness ==
    /\ arg_job # NoneStr
    /\ {3, 4} \subseteq HitsIn(arg_job[1], DeliverableTypeWords)
    /\ job_requirements.deliverable_type = "review"

\* C17: 'PhD Researcher in Computational Biology' has the skill level
\* 'expert'; 'Prepare a comprehensive literature review focusing on
\* methodologies, datasets, and performance benchmarks' has the deliverable
\* type 'review' and the comprehensive-coverage criterion among its
\* success criteria
C17_TestPersonaAndJob ==
    /\ arg_persona = Some("PhD Researcher in Computational Biology") =>
          persona_profile.skill_level = "expert"
    /\ arg_job = Some("Prepare a comprehensive literature review focusing on methodologies, datasets, and performance benchmarks") =>
          /\ job_requirements.deliverable_type = "review"
          /\ "Comprehensive coverage of topic" \in Range(job_requirements.success_criteria)

\* both texts were analysed
C17_Witness ==
    /\ arg_persona = Some("PhD Researcher in Computational Biology")
    /\ arg_job = Some("Prepare a comprehensive literature review focusing on methodologies, datasets, and performance benchmarks")

\* a lowercase token: letters a..z and nothing else
IsLowercaseToken(w) ==
    Len(w) > 0 /\ \A i \in 1..Len(w) : Ch(w, i) \in LowerSet

\* C18: every keyword of the persona profile and every priority keyword of
\* the job requirements is a lowercase token and is none of the stop words
\* of its extractor, whatever the text and the expertise domains found
C18_KeywordsLowercaseNoStopWords ==
    /\ \A w \in persona_profile.keywords :
          IsLowercaseToken(w) /\ w \notin persona_stop_words
    /\ \A w \in job_requirements.priority_keywords :
          IsLowercaseToken(w) /\ w \notin job_stop_words

\* what holds of the keywords: none is a stop word of its extractor, every
\* priority keyword is a lowercase token, and every persona keyword is a
\* lowercase token or a keyword of one of the expertise domains
KeywordsApartFromDomainKeywords ==
    /\ \A w \in persona_profile.keywords :
          /\ w \notin persona_stop_words
          /\ \/ IsLowercaseToken(w)
             \/ w \in DomainKeywords(persona_profile.expertise_domains)
    /\ \A w \in job_requirements.priority_keywords :
          IsLowercaseToken(w) /\ w \notin job_stop_words

\* the words that call for each of the four criteria (C19)
CoverageWords == <<"comprehensive">>
MethodologyWords == <<"methodology", "method">>
MetricsWords == <<"performance", "benchmark", "result">>
ComparisonWords == <<"trend", "analysis", "compare">>
Fires(text, words) == \E n \in DOMAIN words : Contains(Lower(text), words[n])
Has(criteria, c) == c \in Range(criteria)

\* C19: the success criteria are never empty; the coverage criterion is
\* among them iff the lower-cased text contains 'comprehensive', the
\* methodology criterion iff it contains 'methodology' or 'method', the
\* metrics criterion iff it contains 'performance', 'benchmark' or
\* 'result', the comparison criterion iff it contains 'trend', 'analysis'
\* or 'compare'; they are the three default criteria iff none of these
\* holds
C19_SuccessCriteria ==
    /\ job_requirements.success_criteria # <<>>
    /\ arg_job # NoneStr =>
          /\ Has(job_requirements.success_criteria, "Comprehensive coverage of topic")
                <=> Fires(arg_job[1], CoverageWords)
          /\ Has(job_requirements.success_criteria, "Clear methodology explanation")
                <=> Fires(arg_job[1], MethodologyWords)
          /\ Has(job_requirements.success_criteria, "Performance metrics and results")
                <=> Fires(arg_job[1], MetricsWords)
          /\ Has(job_requirements.success_criteria, "Trend analysis and comparisons")
                <=> Fires(arg_job[1], ComparisonWords)
          /\ (job_requirements.success_criteria =
                 <<"Relevant content extraction", "Clear organization",
                   "Actionable insights">>)
                <=> ~(\/ Fires(arg_job[1], CoverageWords)
                      \/ Fires(arg_job[1], MethodologyWords)
                      \/ Fires(arg_job[1], MetricsWords)
                      \/ Fires(arg_job[1], ComparisonWords))

\* a job text with 'method' but not 'methodology' was analysed and has two
\* criteria
C19_Witness ==
    /\ arg_job # NoneStr
    /\ Contains(Lower(arg_job[1]), "method")
    /\ ~Contains(Lower(arg_job[1]), "methodology")
    /\ Len(job_requirements.success_criteria) = 2

(***************************************************************************)
(* Properties of format_output                                              *)
(***************************************************************************)

\* entry k of extracted_sections is made from ranked section k
SectionEntryOf(entry, scored) ==
    /\ entry.document = scored.document
    /\ entry.page_number = scored.section.page_number
    /\ entry.section_title = scored.section.title
    /\ entry.importance_rank = scored.importance_rank

\* entry k of subsection_analysis is made from subsection k
SubsectionEntryOf(entry, subsection) ==
    /\ entry.document = subsection.document
    /\ entry.page_number = subsection.page_number
    /\ entry.refined_text = subsection.refined_text
    /\ entry.parent_section = subsection.parent_section

\* C20: for the documents, ranked sections and subsections of any run
\* (empty lists among them), any persona and job text and any processing
\* time (0 among them), format_output returns, without raising, a record
\* that validate_output_format accepts and whose extracted_sections and
\* subsection_analysis have one entry for every input element, in the
\* same order
C20_FormatOutputValid ==
    pc = "formatted" =>
        /\ raised = "none"
        /\ validate_output_format(output_data[1])
        /\ Len(output_data[1].extracted_sections) = Len(ranked_sections)
        /\ \A k \in DOMAIN ranked_sections :
              SectionEntryOf(output_data[1].extracted_sections[k], ranked_sections[k])
        /\ Len(output_data[1].subsection_analysis) = Len(sub_sections)
        /\ \A k \in DOMAIN sub_sections :
              SubsectionEntryOf(output_data[1].subsection_analysis[k], sub_sections[k])

\* format_output was called with processing time 0 on several ranked
\* sections of different titles and several subsections
C20_Witness ==
    /\ pc = "formatted"
    /\ output_data[1].metadata.processing_time_seconds = 0
    /\ Len(ranked_sections) >= 2
    /\ ranked_sections[1].section.title # ranked_sections[2].section.title
    /\ Len(sub_sections) >= 2

\* format_output was called on no documents, no sections and no subsections
FormattedNothing ==
    /\ pc = "formatted"
    /\ documents = <<>>
    /\ output_data[1].extracted_sections = <<>>
    /\ output_data[1].subsection_analysis = <<>>

(***************************************************************************)
(* Properties of the fragments and the refined excerpts                     *)
(***************************************************************************)

AtLeastTwenty(s) == Len(s) >= 20

\* the trimmed fragments of a section that pass the test keep
FragmentsKept(section, keep(_)) == SelectSeq(Fragments[section], keep)

\* C21: a fragment of a section body split on runs of '.', '!' or '?' is
\* retained for scoring iff its trimmed length is at least 20 characters;
\* only fragments trimmed to fewer than 20 characters are discarded
C21_RetainedIffAtLeast20 ==
    (pc = "extracted" /\ raised = "none") =>
        \A i \in DOMAIN ranked_sections :
            /\ RetainedSentences[ranked_sections[i].section]
                 = FragmentsKept(ranked_sections[i].section, AtLeastTwenty)
            /\ Len(section_subsections[i])
                 = Min(arg_max_subsections,
                       Len(FragmentsKept(ranked_sections[i].section, AtLeastTwenty)))

\* what holds: the fragments retained are those trimmed to more than 20
\* characters
RetainedIffMoreThan20 ==
    (pc = "extracted" /\ raised = "none") =>
        \A i \in DOMAIN ranked_sections :
            /\ RetainedSentences[ranked_sections[i].section]
                 = FragmentsKept(ranked_sections[i].section, LongEnough)
            /\ Len(section_subsections[i])
                 = Min(arg_max_subsections,
                       Len(FragmentsKept(ranked_sections[i].section, LongEnough)))

\* a call on a section with a fragment of exactly 20 characters
ExactlyTwentyExtracted ==
    /\ pc = "extracted"
    /\ arg_max_subsections > 0
    /\ \E i \in DOMAIN ranked_sections :
          \E k \in DOMAIN Fragments[ranked_sections[i].section] :
              Len(Fragments[ranked_sections[i].section][k]) = 20

\* sentence i of the sequence with the sentence before it and the sentence
\* after it, as far as they exist, joined and whitespace-collapsed
OwnContext(sentences, i) ==
    CollapseSpaces(JoinWith(". ",
        (IF i > 1 THEN <<sentences[i - 1]>> ELSE <<>>)
          \o <<sentences[i]>>
          \o (IF i < Len(sentences) THEN <<sentences[i + 1]>> ELSE <<>>)))

\* the first position of the sequence whose sentence contains sentence i
FirstHolder(sentences, i) ==
    CHOOSE h \in 1..i : /\ Contains(sentences[h], sentences[i])
                        /\ \A j \in 1..(h - 1) : ~Contains(sentences[j], sentences[i])

\* sentence i between the neighbours of the first sentence that contains it
HolderContext(sentences, i) ==
    CollapseSpaces(JoinWith(". ",
        (IF FirstHolder(sentences, i) > 1
         THEN <<sentences[FirstHolder(sentences, i) - 1]>> ELSE <<>>)
          \o <<sentences[i]>>
          \o (IF FirstHolder(sentences, i) < Len(sentences)
              THEN <<sentences[FirstHolder(sentences, i) + 1]>> ELSE <<>>)))

\* every SubSection of the run carries context(sentences, n) of the retained
\* sentence n it was made of
ExcerptsAre(context(_, _)) ==
    (pc = "extracted" /\ raised = "none") =>
        \A i \in DOMAIN ranked_sections :
            \A k \in DOMAIN section_subsections[i] :
                \E n \in DOMAIN RetainedSentences[ranked_sections[i].section] :
                    /\ PlaceAmong(RunSentenceScores(ranked_sections[i].section), n) = k
                    /\ section_subsections[i][k].refined_text
                         = context(RetainedSentences[ranked_sections[i].section], n)

\* C22: the refined excerpt of a selected sentence is the sentence before it
\* (if any), the sentence itself and the sentence after it (if any) in the
\* sequence of retained sentences, joined with '. ' and whitespace-collapsed,
\* the neighbours being those of the selected sentence's own position, also
\* when an earlier retained sentence of the section contains it
C22_OwnNeighbours == ExcerptsAre(OwnContext)

\* the neighbours are those of the first retained sentence that contains the
\* selected one
ExcerptsAroundFirstHolder == ExcerptsAre(HolderContext)

\* a sentence that an earlier sentence of its section contains was selected
EchoSelected ==
    /\ pc = "extracted" /\ raised = "none"
    /\ \E i \in DOMAIN ranked_sections :
          \E k \in DOMAIN section_subsections[i] :
              \E n \in DOMAIN RetainedSentences[ranked_sections[i].section] :
                  /\ PlaceAmong(RunSentenceScores(ranked_sections[i].section), n) = k
                  /\ FirstHolder(RetainedSentences[ranked_sections[i].section], n) < n

(* Properties of the component scores *)

\* how many keywords of K occur in text as a substring, each counted once
KeywordsFound(K, text) == Cardinality({k \in K : Contains(text, k)})

\* s is min(1, total / (sqrt(words) * sqrt(size))) in thousandths, rounded
\* down, and 0 when size or words is 0
IsKeywordScore(s, total, words, size) ==
    IF size = 0 \/ words = 0 THEN s = 0
    ELSE IF total * total >= words * size THEN s = Scale
    ELSE /\ s \in 0..(Scale - 1)
         /\ s * s <= (Scale * Scale * total * total) \div (words * size)
         /\ (Scale * Scale * total * total) \div (words * size) < (s + 1) * (s + 1)

\* the keyword score of every scored section is the formula of
\* _calculate_keyword_score with the matches counted by count
KeywordScoresAre(count(_, _)) ==
    AfterScoring =>
        \A i \in DOMAIN component_scores :
            IsKeywordScore(component_scores[i].keyword_score,
                           count(RunKeywords, Lower(Worklist[i].section.content))
                             + 2 * count(RunKeywords, Lower(Worklist[i].section.title)),
                           WordCount(Worklist[i].section.content),
                           Cardinality(RunKeywords))

\* C23: the keyword score of a section is 0 when the combined keyword set K
\* is empty and 0 when the body has no words, even if the title matches;
\* otherwise it is min(1, (content_matches + 2*title_matches)
\* / (sqrt(body word count) * sqrt(|K|))), content_matches and title_matches
\* being the number of keywords of K that occur as a substring of the
\* lower-cased body and of the lower-cased title, each keyword counted once
C23_KeywordScore == KeywordScoresAre(KeywordsFound)

\* the same with content_matches and title_matches counting every substring
\* occurrence of every keyword
C23_CountingOccurrences == KeywordScoresAre(MatchesCounted)

\* a run scored a section whose body has no words and whose title holds a
\* keyword, and a section where a keyword occurs twice and the score is
\* strictly between 0 and 1
C23_Witness ==
    /\ AfterScoring
    /\ \E i \in DOMAIN component_scores :
          /\ WordCount(Worklist[i].section.content) = 0
          /\ KeywordsFound(RunKeywords, Lower(Worklist[i].section.title)) > 0
          /\ component_scores[i].keyword_score = 0
    /\ \E i \in DOMAIN component_scores :
          /\ MatchesCounted(RunKeywords, Lower(Worklist[i].section.content))
               > KeywordsFound(RunKeywords, Lower(Worklist[i].section.content))
          /\ component_scores[i].keyword_score \in 1..(Scale - 1)

\* the first component of the section number is a number, and at most 3
EarlyNumber(section) ==
    /\ section.section_number # NoneStr
    /\ section.section_number[1] # ""
    /\ ParseFloat(BeforeFirstDot(section.section_number[1])).ok
    /\ ParseFloat(BeforeFirstDot(section.section_number[1])).value <= 3

\* how many high-value terms the title holds
TermsInTitle(section) ==
    Cardinality({k \in DOMAIN high_value_terms :
                    Contains(Lower(section.title), high_value_terms[k])})

\* the four parts of the structural score (C24), in thousandths
StructuralParts(section) ==
    [title |-> IF TermsInTitle(section) >= 1 THEN 300 ELSE 0,
     number |-> IF EarlyNumber(section) THEN 200 ELSE 0,
     length |-> IF WordCount(section.content) \in 50..500 THEN 200
                ELSE IF WordCount(section.content) > 500 THEN 100 ELSE 0,
     page |-> IF section.page_number <= 3 THEN 100 ELSE 0]

\* C24: the structural score of a section is the sum of 0.3 if the title
\* contains at least one high-value term (once, however many it contains),
\* 0.2 if a section number is present and its leading numeric component
\* before the first dot is at most 3 (a leading component that is no number
\* adds nothing and raises no error), 0.2 if the body has 50 to 500 words or
\* 0.1 if it has more than 500, and 0.1 if the page number is at most 3; it
\* never exceeds 0.8
C24_StructuralScore ==
    AfterScoring =>
        /\ pc = "scored" => raised = "none"
        /\ \A i \in DOMAIN component_scores :
              /\ component_scores[i].structural_score
                   = StructuralParts(Worklist[i].section).title
                       + StructuralParts(Worklist[i].section).number
                       + StructuralParts(Worklist[i].section).length
                       + StructuralParts(Worklist[i].section).page
              /\ component_scores[i].structural_score <= 800

\* a run scored a section with several high-value terms in its title and all
\* four parts added, and a section whose number starts with a letter
C24_Witness ==
    /\ AfterScoring
    /\ \E i \in DOMAIN component_scores :
          /\ TermsInTitle(Worklist[i].section) > 1
          /\ component_scores[i].structural_score = 800
    /\ \E i \in DOMAIN component_scores :
          /\ Worklist[i].section.section_number # NoneStr
          /\ Worklist[i].section.section_number[1] # ""
          /\ ~ParseFloat(BeforeFirstDot(Worklist[i].section.section_number[1])).ok
          /\ component_scores[i].structural_score = 100

\* word occurs in the lower-cased title or body of the section
InTitleOrBody(section, word) ==
    Contains(Lower(section.content), word) \/ Contains(Lower(section.title), word)

\* how many entries of the sequence of phrases have a word that occurs in
\* the title or body
PhrasesSharingAWord(section, phrases) ==
    Cardinality({i \in DOMAIN phrases :
                    \E k \in DOMAIN Split(Lower(phrases[i])) :
                        InTitleOrBody(section, Split(Lower(phrases[i]))[k])})

\* how many of the profile's domains have a keyword of their list
\* keywords_of(domain) in the title or body
DomainsFound(section, persona, keywords_of(_)) ==
    Cardinality({i \in DOMAIN persona.expertise_domains :
                    \E k \in DOMAIN keywords_of(persona.expertise_domains[i]) :
                        InTitleOrBody(section,
                                      keywords_of(persona.expertise_domains[i])[k])})

\* 0.1 for an expert and a technical term in the body, or a beginner and an
\* introductory term in the body
SkillBonus(section, persona) ==
    IF \/ /\ persona.skill_level = "expert"
          /\ \E t \in {"methodology", "analysis", "framework", "model", "algorithm"} :
                Contains(Lower(section.content), t)
       \/ /\ persona.skill_level = "beginner"
          /\ \E t \in {"introduction", "overview", "basic", "fundamental", "concept"} :
                Contains(Lower(section.content), t)
    THEN 100 ELSE 0

\* persona_alignment of every scored section is min(1, 0.3*d + 0.2*f + b)
\* with the domains counted by the keyword lists keywords_of
PersonaAlignmentsAre(keywords_of(_)) ==
    AfterScoring =>
        \A i \in DOMAIN component_scores :
            component_scores[i].persona_alignment
              = Min(Scale,
                    300 * DomainsFound(Worklist[i].section, persona_profile, keywords_of)
                      + 200 * PhrasesSharingAWord(Worklist[i].section,
                                                  persona_profile.focus_areas)
                      + SkillBonus(Worklist[i].section, persona_profile))

\* C25: persona_alignment of a section equals min(1, 0.3*d + 0.2*f + b), d
\* being the number of the profile's expertise domains with a keyword of the
\* domain's list, the list analyze_persona detects the domain with, in the
\* lower-cased title or body, f the number of focus-area phrases with a word
\* in title or body, and b the 0.1 of the skill level
C25_PersonaAlignment == PersonaAlignmentsAre(domain_keywords)

\* the same with the lists of the scorer's own _get_domain_keywords
PersonaAlignmentByScorerLists == PersonaAlignmentsAre(_get_domain_keywords)

\* a run scored a section that holds a keyword of one of the two lists of a
\* domain of the profile and none of the other list
ListsDisagree ==
    /\ AfterScoring
    /\ \E i \in DOMAIN component_scores :
          DomainsFound(Worklist[i].section, persona_profile, domain_keywords)
            # DomainsFound(Worklist[i].section, persona_profile, _get_domain_keywords)

\* 0.4 when a word of the primary goal occurs in the title or body
GoalPart(section, job) ==
    IF \E k \in DOMAIN Split(Lower(job.primary_goal)) :
          InTitleOrBody(section, Split(Lower(job.primary_goal))[k])
    THEN 400 ELSE 0

\* a keyword of the deliverable type's list occurs in text
TypeKeywordIn(job, text) ==
    \E k \in DOMAIN deliverable_keywords(job.deliverable_type) :
        Contains(Lower(text), deliverable_keywords(job.deliverable_type)[k])

\* C26: job_alignment of a section equals min(1, g + 0.2*n + t), g being 0.4
\* if a word of the primary goal occurs in the lower-cased title or body (0
\* for an empty goal), n the number of information-need phrases with a word
\* in title or body, and t 0.2 if a keyword of the deliverable type's list
\* occurs in the body
C26_JobAlignment ==
    AfterScoring =>
        \A i \in DOMAIN component_scores :
            /\ component_scores[i].job_alignment
                 = Min(Scale,
                       GoalPart(Worklist[i].section, job_requirements)
                         + 200 * PhrasesSharingAWord(Worklist[i].section,
                                     job_requirements.information_needs)
                         + (IF TypeKeywordIn(job_requirements,
                                             Worklist[i].section.content)
                            THEN 200 ELSE 0))
            /\ job_requirements.primary_goal = ""
                 => GoalPart(Worklist[i].section, job_requirements) = 0

\* a run scored a section with a word of the goal and of one need in its
\* title and a keyword of the deliverable type in its title only
C26_Witness ==
    /\ AfterScoring
    /\ \E i \in DOMAIN component_scores :
          /\ TypeKeywordIn(job_requirements, Worklist[i].section.title)
          /\ ~TypeKeywordIn(job_requirements, Worklist[i].section.content)
          /\ PhrasesSharingAWord(Worklist[i].section,
                                 job_requirements.information_needs) = 1
          /\ component_scores[i].job_alignment = 400 + 200

(* Properties of _truncate_content *)

\* the first n characters of content do not end inside a word
AtWordBoundary(content, n) ==
    \/ n = 0
    \/ n >= Len(content)
    \/ IsSpace(Ch(content, n))
    \/ IsSpace(Ch(content, n + 1))

\* every section entry of the output holds the content of its section
\* unchanged when it has at most MaxContent characters, and else the first n
\* characters, n at most MaxContent and accepted by cut, followed by '...'
ContentsAreCut(cut(_, _)) ==
    pc = "formatted" =>
        \A k \in DOMAIN ranked_sections :
            IF Len(ranked_sections[k].section.content) <= MaxContent
            THEN output_data[1].extracted_sections[k].section_content
                   = ranked_sections[k].section.content
            ELSE \E n \in 0..MaxContent :
                    /\ cut(ranked_sections[k].section.content, n)
                    /\ output_data[1].extracted_sections[k].section_content
                         = SubSeq(ranked_sections[k].section.content, 1, n) \o "..."

AnyCut(content, n) == TRUE

\* C28: _truncate_content returns the content unchanged when it has at most
\* max_length characters; otherwise it returns a prefix of the content of at
\* most max_length characters that ends at a word boundary, never in the
\* middle of a word, followed by '...'
C28_TruncateAtWordBoundary == ContentsAreCut(AtWordBoundary)

\* the same without the word boundary
TruncateToPrefix == ContentsAreCut(AnyCut)

\* format_output was called on a section whose content is longer than
\* MaxContent and has a word across character MaxContent that began before
\* eight tenths of it
LongWordFormatted ==
    /\ pc = "formatted"
    /\ \E k \in DOMAIN ranked_sections :
          /\ Len(ranked_sections[k].section.content) > MaxContent
          /\ \A n \in ((8 * MaxContent) \div 10)..(MaxContent + 1) :
                ~IsSpace(Ch(ranked_sections[k].section.content, n))

(* Properties of the refined excerpts *)

\* sentence a of the sequence, or nothing for a = 0
Picked(sentences, a) == IF a = 0 THEN <<>> ELSE <<sentences[a]>>

\* text is sentence n of the sequence with at most one sentence of the
\* sequence before it and at most one after it, joined and collapsed
OfAtMostThree(text, sentences, n) ==
    \E a, c \in 0..Len(sentences) :
        text = CollapseSpaces(JoinWith(". ",
                   Picked(sentences, a) \o <<sentences[n]>> \o Picked(sentences, c)))

\* the search of _refine_sentence_with_context finds sentence n of the
\* sequence somewhere in the sequence
Relocated(sentences, n) ==
    \E h \in DOMAIN sentences : Contains(sentences[h], Strip(sentences[n]))

\* C29: every refined excerpt extract_subsections produces contains the
\* whitespace-collapsed text of its selected sentence and is built from at
\* most three retained sentences of the same section, and the branch for a
\* selected sentence that is not found again in the sentence sequence is
\* never taken
C29_ExcerptHoldsSentence ==
    (pc = "extracted" /\ raised = "none") =>
        \A i \in DOMAIN ranked_sections :
            \A k \in DOMAIN section_subsections[i] :
                \E n \in DOMAIN RetainedSentences[ranked_sections[i].section] :
                    /\ PlaceAmong(RunSentenceScores(ranked_sections[i].section), n) = k
                    /\ Relocated(RetainedSentences[ranked_sections[i].section], n)
                    /\ Contains(section_subsections[i][k].refined_text,
                                CollapseSpaces(
                                    RetainedSentences[ranked_sections[i].section][n]))
                    /\ OfAtMostThree(section_subsections[i][k].refined_text,
                                     RetainedSentences[ranked_sections[i].section], n)

\* a sentence with a run of blanks in it was selected from a section of
\* several retained sentences, and its excerpt is longer than the sentence
C29_Witness ==
    /\ pc = "extracted" /\ raised = "none"
    /\ \E i \in DOMAIN ranked_sections :
          \E k \in DOMAIN section_subsections[i] :
              \E n \in DOMAIN RetainedSentences[ranked_sections[i].section] :
                  /\ PlaceAmong(RunSentenceScores(ranked_sections[i].section), n) = k
                  /\ CollapseSpaces(RetainedSentences[ranked_sections[i].section][n])
                       # RetainedSentences[ranked_sections[i].section][n]
                  /\ Len(section_subsections[i][k].refined_text)
                       > Len(RetainedSentences[ranked_sections[i].section][n])

(***************************************************************************)
(* Properties of _extract_sections                                          *)
(***************************************************************************)

\* the line the loop has just read, stripped
LineRead == Strip(lines[line_index - 1])

\* a line such as '2.1 Methods': a number of up to three parts, blanks, text
NumberedHeader(line) ==
    /\ Len(line) \in 3..200
    /\ Len(Split(line)) >= 2
    /\ MatchEnds(Cat(<<NumberPattern, EndOfText>>), Split(line)[1], 1) # <<>>

\* the number such a line starts with, and the text after it
NumberPrefix(line) == Split(line)[1]
TextAfterNumber(line) ==
    Strip(SubSeq(line, Len(NumberPrefix(line)) + 1, Len(line)))

\* the loop has just read a numbered header line
NumberedHeaderRead ==
    /\ processor_pc = "reading"
    /\ line_index > 1
    /\ NumberedHeader(LineRead)

\* C27: the section that a numbered header line such as '2.1 Methods' starts
\* has the text after the number as its title ('Methods') and the numeric
\* prefix of the line as its section_number ('2.1')
C27_NumberedHeaderKeepsNumber ==
    NumberedHeaderRead =>
        /\ current_section # <<>>
        /\ current_section[1].title = TextAfterNumber(LineRead)
        /\ current_section[1].section_number = Some(NumberPrefix(LineRead))

\* the title is the text after the number, and the section has a number
\* only if that text starts with a digit or with one of I, V, X
NumberedHeaderDropsNumber ==
    NumberedHeaderRead =>
        /\ current_section # <<>>
        /\ current_section[1].title = TextAfterNumber(LineRead)
        /\ current_section[1].section_number # NoneStr
             => Ch(current_section[1].title, 1) \in DigitChars \cup {"I", "V", "X"}
        /\ current_section[1].section_number # Some(NumberPrefix(LineRead))

\* the line '2.1 Methods' has just been read
MethodsHeaderRead == NumberedHeaderRead /\ LineRead = "2.1 Methods"

\* line i of the text, stripped
LineAt(i) == Strip(lines[i])

IsMarkerLine(line) == StartsWith(line, "--- PAGE ")
IsHeaderLine(line) ==
    ~IsMarkerLine(line) /\ _is_section_header(line) \notin {NoneStr, Some("")}
IsContentLine(line) == line # "" /\ ~IsMarkerLine(line) /\ ~IsHeaderLine(line)

\* the places of the header lines of the text
HeaderPlaces == {h \in DOMAIN lines : IsHeaderLine(LineAt(h))}

\* the content lines between header h and the next header, in their order
ContentAfter(h) ==
    SelectSeq(List([j \in 1..(Len(lines) - h) |->
                      IF \E g \in HeaderPlaces : h < g /\ g <= h + j THEN ""
                      ELSE LineAt(h + j)]),
              IsContentLine)

\* the number of the last page marker with a number before line h, else 1
PageBefore(h) ==
    IF \E m \in 1..(h - 1) : IsMarkerLine(LineAt(m)) /\ PageOfMarker(LineAt(m)).ok
    THEN PageOfMarker(LineAt(
             CHOOSE m \in 1..(h - 1) :
                 /\ IsMarkerLine(LineAt(m)) /\ PageOfMarker(LineAt(m)).ok
                 /\ \A n \in (m + 1)..(h - 1) :
                       ~(IsMarkerLine(LineAt(n)) /\ PageOfMarker(LineAt(n)).ok))).value
    ELSE 1

\* the places of the headers that are followed by a content line
HeadersWithContent == {h \in HeaderPlaces : ContentAfter(h) # <<>>}

\* C30: _extract_sections emits the sections in the order of their header
\* lines; when none is emitted and the text is not empty, the one section
\* 'Document Content' (page 1, the whole text); every other emitted section
\* has as content, which is not empty, exactly the non-empty lines that are
\* neither page markers nor headers between its header and the next header,
\* in their order, and as page_number the number of the last page marker
\* before its header (1 if none); a header with no content line before the
\* next header gives no section
C30_SectionsOfText ==
    processor_pc = "returned" =>
        IF HeadersWithContent = {}
        THEN doc_sections
               = IF all_text # ""
                 THEN <<DocumentSection("Document Content", Strip(all_text), 1, NoneStr)>>
                 ELSE <<>>
        ELSE /\ Len(doc_sections) = Cardinality(HeadersWithContent)
             /\ \A h \in HeadersWithContent :
                   LET k == Cardinality({g \in HeadersWithContent : g <= h})
                   IN  /\ doc_sections[k].title = _is_section_header(LineAt(h))[1]
                       /\ doc_sections[k].content = JoinWith("\n", ContentAfter(h))
                       /\ doc_sections[k].content # ""
                       /\ doc_sections[k].page_number = PageBefore(h)

\* a call returned several sections, one with several content lines and one
\* of a later page, for a text that also has a header without content
C30_Witness ==
    /\ processor_pc = "returned"
    /\ Len(doc_sections) >= 2
    /\ \E k \in DOMAIN doc_sections : doc_sections[k].page_number > 1
    /\ \E k \in DOMAIN doc_sections : Contains(doc_sections[k].content, "\n")
    /\ HeaderPlaces # HeadersWithContent

=============================================================================
